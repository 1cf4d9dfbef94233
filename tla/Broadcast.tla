----------------------------- MODULE Broadcast -----------------------------
(***************************************************************************)
(* What package dispatch promises the rest of the service, without locks,  *)
(* goroutines and channels: an atomic broadcast.  A notification that was  *)
(* sent is forwarded at one moment, to all who are members at that moment  *)
(* and entitled to it, so that all see what they see in one order; coming  *)
(* and going never falls into a forwarding.  The only losses are those of  *)
(* a failed evaluation, of a member that lags, and of Stop.                *)
(*                                                                         *)
(* Module Dispatcher implements this specification (ImplementsBroadcast).  *)
(***************************************************************************)
EXTENDS Notifications

CONSTANTS
  Calls,             \* the calls of Send
  Conns,             \* the subscription requests
  Inputs,            \* the notifications that can be sent
  Requests,          \* the subscribers that can be asked for
  notificationBuffer \* how many messages a member may leave unread

VARIABLES
  note,     \* the notification of a call, Nil before the call
  pending,  \* the calls whose notification is still to be forwarded
  member,   \* the subscriber of a connection, Nil before it is one
  members,  \* the connections that are subscribed now
  got,      \* the calls whose notification a connection was given, in order
  open      \* not stopped yet

vars == <<note, pending, member, members, got, open>>

Init ==
  /\ note = [c \in Calls |-> Nil]
  /\ pending = {}
  /\ member = [s \in Conns |-> Nil]
  /\ members = {}
  /\ got = [s \in Conns |-> <<>>]
  /\ open = TRUE

Send(c) ==
  /\ note[c] = Nil
  /\ \E n \in Inputs : note' = [note EXCEPT ![c] = n]
  /\ pending' = pending \cup {c}
  /\ UNCHANGED <<member, members, got, open>>

Join(s) ==
  /\ member[s] = Nil
  /\ \E r \in Requests : member' = [member EXCEPT ![s] = r]
  /\ members' = members \cup {s}
  /\ UNCHANGED <<note, pending, got, open>>

Leave(s) ==
  /\ s \in members
  /\ members' = members \ {s}
  /\ UNCHANGED <<note, pending, member, got, open>>

(* Those a notification is for, given the answer of the policy agent.      *)
Addressees(n, answer) ==
  IF answer = "error" THEN {}
  ELSE {s \in members : ~Skipped(n, answer = "allow", member[s])}

(* A member misses a notification only if it was given a buffer full of    *)
(* others before.                                                          *)
MayLag == {s \in members : Len(got[s]) >= notificationBuffer}

Forward(c) ==
  /\ open = TRUE
  /\ c \in pending
  /\ \E answer \in {"allow", "deny", "error"}, lagging \in SUBSET MayLag :
       /\ PublicationFails(note[c]) => answer = "error"
       /\ got' = [s \in Conns |->
                    IF s \in Addressees(note[c], answer) \ lagging
                    THEN Append(got[s], c) ELSE got[s]]
  /\ pending' = pending \ {c}
  /\ UNCHANGED <<note, member, members, open>>

Stop ==
  /\ open = TRUE
  /\ open' = FALSE
  /\ UNCHANGED <<note, pending, member, members, got>>

Next ==
  \/ \E c \in Calls : Send(c) \/ Forward(c)
  \/ \E s \in Conns : Join(s) \/ Leave(s)
  \/ Stop

Spec == Init /\ [][Next]_vars
=============================================================================
