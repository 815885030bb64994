--------------------------- MODULE AnswerService ---------------------------
(***************************************************************************)
(* What a server with one request in hand at a time promises: it takes the *)
(* requests in the order they came in, and answers each once, to the one   *)
(* who sent it, before it takes the next.                                  *)
(***************************************************************************)
EXTENDS Sequences

CONSTANTS Sources,    \* who sends requests; each source asks one question
          Answer,     \* Answer[s]: the right answer to the question of s
          None

VARIABLES
  inbox,      \* the sources whose requests wait, in order
  current,    \* the source that is being answered, or None
  answers     \* answers[s]: the answers sent to s

Init ==
  /\ inbox = <<>>
  /\ current = None
  /\ answers = [s \in Sources |-> <<>>]

Arrive(s) ==
  /\ inbox' = Append(inbox, s)
  /\ UNCHANGED <<current, answers>>

Take ==
  /\ current = None
  /\ inbox # <<>>
  /\ current' = Head(inbox)
  /\ inbox' = Tail(inbox)
  /\ UNCHANGED answers

Reply ==
  /\ current # None
  /\ answers' = [answers EXCEPT ![current] = Append(@, Answer[current])]
  /\ current' = None
  /\ UNCHANGED inbox

Next == Take \/ Reply \/ \E s \in Sources : Arrive(s)

Spec == Init /\ [][Next]_<<inbox, current, answers>>
=============================================================================
