---------------------------- MODULE SerialService ----------------------------
(* What the job coordinator promises its callers, with no queue, no counter   *)
(* and no microtasks: a room that holds at most Capacity customers, served    *)
(* one at a time in the order they were let in, each answered exactly once.   *)
EXTENDS Naturals, Sequences

CONSTANTS Customers,   \* every submission a caller may make
          Capacity     \* customers the room holds, the one being served included

VARIABLES room,        \* the customers let in and not yet gone, oldest first
          answer       \* what each customer has been told

serviceVars == <<room, answer>>

Answers == {"pending", "resolved", "rejected", "full"}

Inside(c) == \E i \in 1..Len(room) : room[i] = c

ServiceInit == /\ room = <<>>
               /\ answer = [c \in Customers |-> "pending"]

Admit(c) == /\ answer[c] = "pending"
            /\ ~Inside(c)
            /\ Len(room) < Capacity
            /\ room' = Append(room, c)
            /\ UNCHANGED answer

TurnAway(c) == /\ answer[c] = "pending"
               /\ ~Inside(c)
               /\ Len(room) = Capacity
               /\ answer' = [answer EXCEPT ![c] = "full"]
               /\ UNCHANGED room

\* Only the customer at the head is ever answered.
Answer == /\ room # <<>>
          /\ answer[Head(room)] = "pending"
          /\ \E a \in {"resolved", "rejected"} :
                answer' = [answer EXCEPT ![Head(room)] = a]
          /\ UNCHANGED room

Leave == /\ room # <<>>
         /\ answer[Head(room)] # "pending"
         /\ room' = Tail(room)
         /\ UNCHANGED answer

ServiceNext == \/ \E c \in Customers : Admit(c) \/ TurnAway(c)
               \/ Answer
               \/ Leave

ServiceSafety == ServiceInit /\ [][ServiceNext]_serviceVars

ServiceSpec == /\ ServiceSafety
               /\ WF_serviceVars(Answer)
               /\ WF_serviceVars(Leave)

==============================================================================
