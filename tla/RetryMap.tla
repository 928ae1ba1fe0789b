------------------------------ MODULE RetryMap ------------------------------
(***************************************************************************)
(* What the coordinator promises a client that retries: a map from         *)
(* sequence numbers to at most one admission each.  A sequence is unknown, *)
(* pending, or answered; a pending one is never forgotten within a         *)
(* session; an answer comes from the admission it answers, is final, and   *)
(* may be forgotten, one at a time, only to make room for an admission.    *)
(***************************************************************************)
EXTENDS Integers

CONSTANTS SequenceNumber, Token, Response, None

VARIABLES
  record,     \* what is known of each sequence, or None
  lastId      \* admission ids up to here have been used

Record == [token: Token, response: Response \cup {None}]

TypeOK ==
  /\ record \in [SequenceNumber -> Record \cup {None}]
  /\ lastId \in Nat

Init ==
  /\ record = [s \in SequenceNumber |-> None]
  /\ lastId = 0

Pending(s) == record[s] # None /\ record[s].response = None
AnsweredSequence == {s \in SequenceNumber : record[s] # None /\ ~Pending(s)}

\* A request of unknown sequence s is admitted, pending or answered at once;
\* at most one answered sequence is forgotten.
Admit(s) ==
  /\ record[s] = None
  /\ lastId' = lastId + 1
  /\ record'[s] \in Record
  /\ record'[s].token.id = lastId'
  /\ record'[s].token.sequence = s
  /\ record'[s].response # None => record'[s].response.origin = record'[s].token
  /\ \E forgotten \in {{}} \cup {{x} : x \in AnsweredSequence} :
       record' = [x \in SequenceNumber |->
                    IF x = s THEN record'[s]
                    ELSE IF x \in forgotten THEN None ELSE record[x]]

\* The admission pending at s is answered.
AnswerPending(s) ==
  /\ Pending(s)
  /\ record'[s] # None
  /\ record'[s].response \in Response
  /\ record'[s].response.origin = record[s].token
  /\ record' = [record EXCEPT ![s].response = record'[s].response]
  /\ UNCHANGED lastId

\* The session ends and takes every sequence with it.
Forget ==
  /\ record' = [s \in SequenceNumber |-> None]
  /\ UNCHANGED lastId

Next ==
  \/ \E s \in SequenceNumber : Admit(s) \/ AnswerPending(s)
  \/ Forget

Spec == Init /\ [][Next]_<<record, lastId>>
=============================================================================
