-------------------------------- MODULE Inbox --------------------------------
(***************************************************************************)
(* The messages of one user in the enterprises it works for.  A message is  *)
(* stamped by the process that sends it and can be read by others once its  *)
(* row is inserted, so that rows become visible out of order.  Messages are *)
(* numbered by their created_at; no two have the same.                      *)
(***************************************************************************)
EXTENDS Naturals, FiniteSets

CONSTANTS
    MaxMessages,   \* bound: messages sent
    Enterprises,
    PollLimit      \* messages in one answer to a poll

ASSUME InboxAssumption == PollLimit \in Nat \ {0} /\ MaxMessages \in Nat

VARIABLES
    inbox,     \* the enterprise of each message and where it stands
    late       \* messages inserted after one with a later stamp

mail == <<inbox, late>>

Messages == 1..MaxMessages
NewMessage == [ent |-> "none", at |-> "unsent"]

InboxInit ==
    /\ inbox = [m \in Messages |-> NewMessage]
    /\ late = {}

(* Send: the row is stamped ...                                             *)
Stamp(m, ent) ==
    /\ inbox[m].at = "unsent"
    /\ \A n \in Messages : n < m => inbox[n].at # "unsent"
    /\ inbox' = [inbox EXCEPT ![m] = [ent |-> ent, at |-> "sending"]]
    /\ UNCHANGED late

Unread(m) == inbox[m].at = "unread"
Visible(m) == inbox[m].at \in {"unread", "read"}

(* ... and inserted.                                                        *)
Insert(m) ==
    /\ inbox[m].at = "sending"
    /\ inbox' = [inbox EXCEPT ![m].at = "unread"]
    /\ late' = IF \E n \in Messages : n > m /\ Visible(n) THEN late \cup {m} ELSE late

(* The answer of ListUnreadByReceiver: oldest first, cut off at the limit.  *)
Unreads(ent, since) == {m \in Messages : Unread(m) /\ inbox[m].ent = ent /\ m > since}
\* Defect: newest first.
ListUnreadNewest(ent, since) ==
    {m \in Unreads(ent, since) : Cardinality({n \in Unreads(ent, since) : n > m}) < PollLimit}
ListUnreadByReceiver(ent, since) ==
    {m \in Unreads(ent, since) : Cardinality({n \in Unreads(ent, since) : n < m}) < PollLimit}

(* MarkRead and BatchMarkAsRead, within one enterprise.                     *)
MarkRead(S, ent) ==
    inbox' = [m \in Messages |-> IF m \in S /\ Unread(m) /\ inbox[m].ent = ent
                                 THEN [inbox[m] EXCEPT !.at = "read"] ELSE inbox[m]]
=============================================================================
