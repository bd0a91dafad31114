------------------------------ MODULE Messages ------------------------------
(***************************************************************************)
(* The messages that cross from the network module (C++, outside src/) to  *)
(* the application: what protomsgutil.swift and AppDelegate.swift tell     *)
(* apart of a decoded Comminternal.PkgMsg.                                 *)
(***************************************************************************)
EXTENDS Integers, Sequences

CONSTANTS
  MaxRequests,  \* bound: requests the application ever issues
  MaxVersion    \* bound: pushes of one topic the server ever sends

ASSUME BoundsAssumption ==
  /\ MaxRequests \in Nat
  /\ MaxVersion \in Nat

Requests == 1..MaxRequests

\* The pushes AppDelegate.onSrvMessage hands to GlobalSessionUser, one cache
\* each: PkgSrvPushLocks, PkgSrvPushUserUsers, PkgSrvPushLockListPasswordList.
Topics == {"locks", "users", "passwords"}

\* The answer to request num: of message type MsgRes, the only one a handler
\* accepts, or of another.
Answer == [kind : {"answer"}, name : {"MsgRes", "MsgReq"}, num : Requests]

\* Push number num of a topic; the number stands for the content.
Push == [kind : {"push"}, name : Topics, num : 1..MaxVersion]

\* A push of a type no branch of onSrvMessage names: it is only re-posted.
Other == [kind : {"other"}, name : {"other"}, num : {0}]

\* A change of the connection: MsgConnected with issuc set or not, MsgClosed.
Status == [kind : {"status"}, name : {"connected", "refused", "closed"},
           num : {0}]

Message == Answer \cup Push \cup Other \cup Status

\* The handler of protomsgutil.getLocalMsg goes on only with a MsgRes.
Heard(m) == m.kind = "answer" => m.name = "MsgRes"
=============================================================================
