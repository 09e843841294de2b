---------------------------- MODULE InOrderQueue ----------------------------
(***************************************************************************)
(* What a caller may rely on when it makes calls on several device queues: *)
(* every call either throws or is accepted; the accepted calls of a queue  *)
(* finish one after the other in the order they were made, and each leaves *)
(* its own result where it was told to, once.  Devices, handles, kernels   *)
(* and workspaces are no part of this.                                     *)
(***************************************************************************)
EXTENDS Integers, Sequences

CONSTANTS
  Queues,  \* the queues calls are made on
  Unset,   \* where no result was written yet
  Errors   \* what a call may throw

VARIABLES
  asked,    \* the calls made, [queue, info]: info is what is to be found
  answer,   \* of each: "calling", "returned" or what it threw
  waiting,  \* by queue: the calls accepted and not finished
  result    \* of each call: Unset, or what was found

vars == <<asked, answer, waiting, result>>

Thrown == Errors \ {"calling", "returned"}

Init ==
  /\ asked = <<>>
  /\ answer = <<>>
  /\ waiting = [q \in Queues |-> {}]
  /\ result = <<>>

\* One thread makes the calls: a second one begins when the first has come back.
Ask ==
  /\ Len(asked') = Len(asked) + 1
  /\ asked' = Append(asked, asked'[Len(asked')])
  /\ asked'[Len(asked')].queue \in Queues
  /\ \A c \in 1 .. Len(answer) : answer[c] # "calling"
  /\ answer' = Append(answer, "calling")
  /\ result' = Append(result, Unset)
  /\ UNCHANGED waiting

Throw ==
  \E c \in 1 .. Len(asked), e \in Thrown :
    /\ answer[c] = "calling"
    /\ answer' = [answer EXCEPT ![c] = e]
    /\ UNCHANGED <<asked, waiting, result>>

Accept ==
  \E c \in 1 .. Len(asked) :
    /\ answer[c] = "calling"
    /\ answer' = [answer EXCEPT ![c] = "returned"]
    /\ waiting' = [waiting EXCEPT ![asked[c].queue] = @ \cup {c}]
    /\ UNCHANGED <<asked, result>>

\* The oldest one is next: calls are numbered as they were made.
Finish ==
  \E q \in Queues : \E c \in waiting[q] :
    /\ \A d \in waiting[q] : c <= d
    /\ result' = [result EXCEPT ![c] = asked[c].info]
    /\ waiting' = [waiting EXCEPT ![q] = @ \ {c}]
    /\ UNCHANGED <<asked, answer>>

Next == Ask \/ Throw \/ Accept \/ Finish

Spec == Init /\ [][Next]_vars
=============================================================================
