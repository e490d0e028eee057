------------------------- MODULE BrowserSessionsProofs -------------------------
(***************************************************************************)
(* Proofs about BrowserSessions for every set of users and callers, whatever *)
(* they may ask for, and every number of sessions.                           *)
(***************************************************************************)
EXTENDS BrowserSessions, TLAPS

Rows == [kind : Kinds, user : Users, status : Active \union {"ended"},
         leased : BOOLEAN, age : 0..2]

(* A request that opens a session knows its kind and its user until it has   *)
(* created one or polls the holder's; the others know a session only.        *)
OpeningSteps == {"create", "recreate", "reset", "sweep", "find", "claim", "lost"}
PollingSteps == {"read", "expire", "fail", "start", "started", "running", "touch",
                 "ready", "upgrade"}
Opens == [at : OpeningSteps, kind : Kinds, user : Users]
Polls == [at : PollingSteps, id : Nat]
Looks == [at : {"look"}, id : Nat, start : BOOLEAN, inUse : BOOLEAN]
Calls == {Off} \union Opens \union Polls \union Looks

Typed == session \in Seq(Rows) /\ call \in [Callers -> Calls]

IInv == Typed /\ LeaseIsUnderWay

-----------------------------------------------------------------------------
LEMMA InitIInv == Init => IInv
  BY DEF Init, IInv, Typed, Calls, LeaseIsUnderWay, Ids

(* What a request is about can be told from where it is. *)
LEMMA CallKinds ==
  ASSUME NEW x \in Calls
  PROVE  /\ x.at \in OpeningSteps \/ "kind" \in DOMAIN x => x \in Opens
         /\ x.at \in PollingSteps => x \in Polls
         /\ x.at = "look" => x \in Looks
  BY DEF Calls, Off, Opens, Polls, Looks, OpeningSteps, PollingSteps

(* What the statements write: a row ends, or is marked ready, active, older. *)
LEMMA RowWrites ==
  ASSUME NEW r \in Rows
  PROVE  /\ Ended(r) \in Rows /\ ~Ended(r).leased
         /\ \A s \in {"ready", "active"} :
              /\ [r EXCEPT !.status = s] \in Rows
              /\ [r EXCEPT !.status = s].status \in Active
              /\ [r EXCEPT !.status = s].leased = r.leased
              /\ [r EXCEPT !.status = s].age = r.age
         /\ r.age < 2 => /\ [r EXCEPT !.age = @ + 1] \in Rows
                         /\ [r EXCEPT !.age = @ + 1].status = r.status
                         /\ [r EXCEPT !.age = @ + 1].leased = r.leased
<1> USE DEF Rows, Active
<1>1. Ended(r) \in Rows /\ ~Ended(r).leased
  BY DEF Ended
<1>2. ASSUME NEW s \in {"ready", "active"}
      PROVE  /\ [r EXCEPT !.status = s] \in Rows
             /\ [r EXCEPT !.status = s].status \in Active
             /\ [r EXCEPT !.status = s].leased = r.leased
             /\ [r EXCEPT !.status = s].age = r.age
  OBVIOUS
<1>3. ASSUME r.age < 2
      PROVE  /\ [r EXCEPT !.age = r.age + 1] \in Rows
             /\ [r EXCEPT !.age = r.age + 1].status = r.status
             /\ [r EXCEPT !.age = r.age + 1].leased = r.leased
  BY <1>3
<1> QED
  BY <1>1, <1>2, <1>3

(* How the table of sessions may change: rows are appended or rewritten, and *)
(* every new version of a row keeps the lease rule.                          *)
RowOK(r) == r \in Rows /\ (r.leased => r.status \in Active)

LEMMA Rewritten ==
  ASSUME Typed, session' = [s \in Ids |-> session'[s]], \A s \in Ids : RowOK(session'[s])
  PROVE  session' \in Seq(Rows) /\ LeaseIsUnderWay'
<1>1. Len(session) \in Nat /\ Ids = 1..Len(session)
  BY DEF Typed, Ids
<1>2. session' \in [1..Len(session) -> Rows]
  BY <1>1 DEF RowOK
<1>3. session' \in Seq(Rows)
  BY <1>1, <1>2
<1> QED
  BY <1>1, <1>2, <1>3 DEF LeaseIsUnderWay, Ids, RowOK

LEMMA SessionRows ==
  ASSUME IInv, NEW s \in Ids
  PROVE  session[s] \in Rows /\ RowOK(session[s])
  BY DEF IInv, Typed, Ids, LeaseIsUnderWay, RowOK

(* One row is rewritten by its id. *)
LEMMA OneRowRewritten ==
  ASSUME IInv, NEW s, NEW r, s \in Ids => RowOK(r),
         session' = [session EXCEPT ![s] = r]
  PROVE  session' \in Seq(Rows) /\ LeaseIsUnderWay'
<1>1. session' = [t \in Ids |-> IF t = s THEN r ELSE session[t]]
  BY DEF Ids, IInv, Typed
<1>2. \A t \in Ids : RowOK(session'[t])
  BY <1>1, SessionRows
<1> QED
  BY <1>1, <1>2, Rewritten DEF IInv

LEMMA HungUpKeeps ==
  ASSUME IInv, NEW closed, session' = HungUp(closed)
  PROVE  session' \in Seq(Rows) /\ LeaseIsUnderWay'
<1>1. \A t \in Ids : RowOK(session'[t])
  BY SessionRows, RowWrites DEF HungUp, RowOK
<1> QED
  BY <1>1, Rewritten DEF IInv, HungUp

-----------------------------------------------------------------------------
(* The table of sessions, action by action. *)
LEMMA SessionsKeep ==
  ASSUME IInv, [Next]_vars
  PROVE  session' \in Seq(Rows) /\ LeaseIsUnderWay'
<1>1. CASE UNCHANGED session
  BY <1>1 DEF IInv, Typed, LeaseIsUnderWay, Ids
<1>2. ASSUME NEW c \in Callers, Sweep(c) PROVE session' \in Seq(Rows) /\ LeaseIsUnderWay'
  <2>1. \A t \in Ids : RowOK(session'[t])
    BY <1>2, SessionRows, RowWrites DEF Sweep, RowOK
  <2> QED
    BY <1>2, <2>1, Rewritten DEF IInv, Sweep
<1>3. ASSUME NEW c \in Callers, Claim(c), session' # session
      PROVE  session' \in Seq(Rows) /\ LeaseIsUnderWay'
  <2> DEFINE new == [kind |-> call[c].kind, user |-> call[c].user,
                     status |-> "provisioning", leased |-> TRUE, age |-> 0]
  <2>1. session' = Append(session, new) /\ call[c] \in Opens
    BY <1>3, CallKinds DEF Claim, At, IInv, Typed, OpeningSteps
  <2>2. new \in Rows /\ new.status \in Active
    BY <2>1 DEF Rows, Active, Opens
  <2>3. session' \in Seq(Rows)
    BY <2>1, <2>2 DEF IInv, Typed
  <2>4. \A s \in DOMAIN session' :
          session'[s] = IF s \in Ids THEN session[s] ELSE new
    BY <2>1 DEF IInv, Typed, Ids
  <2> QED
    BY <2>2, <2>3, <2>4 DEF LeaseIsUnderWay, Ids, IInv
<1>4. ASSUME NEW c \in Callers, Ready(c) \/ Expire(c) \/ Fail(c)
      PROVE  session' \in Seq(Rows) /\ LeaseIsUnderWay'
  <2> DEFINE s == call[c].id
  <2>1. PICK r : /\ session' = [session EXCEPT ![s] = r]
                 /\ r \in {Ended(session[s]), [session[s] EXCEPT !.status = "ready"]}
    BY <1>4 DEF Ready, Expire, Fail, Write
  <2>2. ASSUME s \in Ids PROVE RowOK(r)
    <3>1. session[s] \in Rows
      BY <2>2, SessionRows
    <3>2. RowOK(Ended(session[s])) /\ RowOK([session[s] EXCEPT !.status = "ready"])
      BY <3>1, RowWrites DEF RowOK
    <3> QED
      BY <2>1, <3>2
  <2> QED
    BY <2>1, <2>2, OneRowRewritten
<1>5. ASSUME NEW c \in Callers, Upgrade(c)
      PROVE  session' \in Seq(Rows) /\ LeaseIsUnderWay'
  <2> DEFINE s == call[c].id
             r == [session[s] EXCEPT !.status = "active"]
  <2>1. CASE instance = "running"
    <3>1. session' = [session EXCEPT ![s] = r]
      BY <1>5, <2>1 DEF Upgrade
    <3>2. s \in Ids => RowOK(r)
      BY SessionRows, RowWrites DEF RowOK
    <3> QED
      BY <3>1, <3>2, OneRowRewritten
  <2>2. CASE instance # "running"
    BY <1>5, <2>2, HungUpKeeps DEF Upgrade
  <2> QED
    BY <2>1, <2>2
<1>6. ASSUME NEW s \in Ids, Complete(s) \/ Cancel(s) \/ Grow(s)
      PROVE  session' \in Seq(Rows) /\ LeaseIsUnderWay'
  <2>1. session[s] \in Rows /\ RowOK(session[s])
    BY SessionRows
  <2>2. CASE Complete(s) \/ Cancel(s)
    <3>1. session' = [session EXCEPT ![s] = Ended(session[s])] /\ RowOK(Ended(session[s]))
      BY <2>1, <2>2, RowWrites DEF Complete, Cancel, RowOK
    <3> QED
      BY <3>1, OneRowRewritten
  <2>3. CASE Grow(s)
    <3>1. /\ session' = [session EXCEPT ![s] = [session[s] EXCEPT !.age = @ + 1]]
          /\ RowOK([session[s] EXCEPT !.age = @ + 1])
      BY <2>1, <2>3, RowWrites DEF Grow, Unexpired, RowOK, Ids
    <3> QED
      BY <3>1, OneRowRewritten
  <2> QED
    BY <1>6, <2>2, <2>3
<1>7. ASSUME \/ InstanceDown
             \/ \E s \in Ids : Disconnect(s)
      PROVE  session' \in Seq(Rows) /\ LeaseIsUnderWay'
  BY <1>7, HungUpKeeps DEF InstanceDown, Disconnect
<1>8. \/ UNCHANGED session
      \/ \E c \in Callers : \/ Sweep(c) \/ (Claim(c) /\ session' # session)
                            \/ Ready(c) \/ Expire(c) \/ Fail(c) \/ Upgrade(c)
      \/ \E s \in Ids : Complete(s) \/ Cancel(s) \/ Grow(s) \/ Disconnect(s)
      \/ InstanceDown
  BY DEF Next, vars, Ask, Serve, Die, StopIdle, Machine, GrowIdle, Open, Poll, Connect,
         CreateInstance, CreateInstanceFails, ResetVm, Find, Lost, PollHolder, Look,
         StartInstance, Started, Running, FindIdle, StopInstance, Stopped, InstanceUp
<1> QED
  BY <1>1, <1>2, <1>3, <1>4, <1>5, <1>6, <1>7, <1>8

-----------------------------------------------------------------------------
(* The requests: each step of a caller is one of the calls it may be in. *)
LEMMA CallsKeep == ASSUME IInv, [Next]_vars PROVE call' \in [Callers -> Calls]
<1> USE DEF IInv, Typed
<1>1. CASE UNCHANGED call
  BY <1>1
<1>2. ASSUME NEW c \in Callers, NEW next \in Calls, call' = [call EXCEPT ![c] = next]
      PROVE  call' \in [Callers -> Calls]
  BY <1>2
<1>3. ASSUME NEW c \in Callers, Return(c) PROVE call' \in [Callers -> Calls]
  BY <1>3 DEF Return, Calls
<1>4. ASSUME NEW c \in Callers, NEW at \in PollingSteps, NEW s \in Nat, Continue(c, at, s)
      PROVE  call' \in [Callers -> Calls]
  <2>1. [at |-> at, id |-> s] \in Calls
    BY DEF Calls, Polls
  <2> QED
    BY <1>2, <1>4, <2>1 DEF Continue
<1>5. ASSUME NEW c \in Callers, call[c] \in Opens,
             NEW at \in OpeningSteps, Goto(c, at)
      PROVE  call' \in [Callers -> Calls]
  <2>1. [call[c] EXCEPT !.at = at] \in Calls
    BY <1>5 DEF Opens, Calls
  <2> QED
    BY <1>2, <1>5, <2>1 DEF Goto
<1>6. ASSUME NEW c \in Callers, call[c] \in Polls,
             NEW at \in PollingSteps, Goto(c, at)
      PROVE  call' \in [Callers -> Calls]
  <2>1. [call[c] EXCEPT !.at = at] \in Calls
    BY <1>6 DEF Polls, Calls
  <2> QED
    BY <1>2, <1>6, <2>1 DEF Goto
<1>7. Ids \subseteq Nat
  BY DEF Ids
<1>8. \A s \in Nat : Reads(s) \in Calls
  BY DEF Reads, Calls, Polls, Looks, PollingSteps, MustStart
<1>9. \A c \in Callers : /\ call[c] \in Calls
                         /\ call[c].at \in OpeningSteps => call[c] \in Opens
                         /\ call[c].at \in PollingSteps => call[c] \in Polls
                         /\ call[c].at = "look" => call[c] \in Looks
  BY CallKinds
<1>10. ASSUME NEW c \in Callers, Ask(c) PROVE call' \in [Callers -> Calls]
  <2>1. ASSUME NEW user \in Users, NEW kind \in Kinds, Open(c, user, kind)
        PROVE  call' \in [Callers -> Calls]
    <3>1. \E at \in OpeningSteps :
            call' = [call EXCEPT ![c] = [at |-> at, kind |-> kind, user |-> user]]
      BY <2>1 DEF Open, OpeningSteps
    <3>2. \A at \in OpeningSteps : [at |-> at, kind |-> kind, user |-> user] \in Calls
      BY DEF Calls, Opens
    <3> QED
      BY <1>2, <3>1, <3>2
  <2>2. ASSUME NEW s \in Ids, Poll(c, s) PROVE call' \in [Callers -> Calls]
    BY <1>2, <1>7, <1>8, <2>2 DEF Poll
  <2>3. ASSUME NEW s \in Ids, Connect(c, s) PROVE call' \in [Callers -> Calls]
    BY <1>4, <1>7, <2>3 DEF Connect, Begin, PollingSteps
  <2> QED
    BY <1>10, <2>1, <2>2, <2>3 DEF Ask
<1>11. ASSUME NEW c \in Callers, Serve(c) PROVE call' \in [Callers -> Calls]
  <2> USE DEF At
  <2>1. CASE CreateInstance(c) \/ ResetVm(c) \/ Sweep(c)
    BY <1>5, <1>9, <2>1 DEF CreateInstance, ResetVm, Sweep, OpeningSteps
  <2>2. CASE CreateInstanceFails(c) \/ Started(c) \/ Ready(c) \/ Expire(c) \/ Fail(c) \/ Upgrade(c)
    BY <1>3, <2>2 DEF CreateInstanceFails, Started, Ready, Expire, Fail, Write, Upgrade
  <2>3. ASSUME NEW s \in Ids, Answer(c, s) PROVE call' \in [Callers -> Calls]
    <3>1. Off \in Calls /\ [at |-> "read", id |-> s] \in Calls
      BY <1>7 DEF Calls, Polls, PollingSteps
    <3> QED
      BY <1>2, <2>3, <3>1 DEF Answer
  <2>4. CASE Find(c) \/ Lost(c)
    BY <1>3, <1>5, <1>9, <2>3, <2>4 DEF Find, Lost, Holders, OpeningSteps
  <2>5. CASE Claim(c)
    BY <1>3, <1>5, <1>9, <2>5 DEF Claim, OpeningSteps
  <2>6. CASE PollHolder(c)
    <3>1. call[c].id \in Nat
      BY <1>9, <2>6 DEF PollHolder, PollingSteps, Polls
    <3> QED
      BY <1>2, <1>8, <2>6, <3>1 DEF PollHolder
  <2>7. CASE Look(c)
    <3>1. call[c].id \in Nat
      BY <1>9, <2>7 DEF Look, Looks
    <3> QED
      BY <1>3, <1>4, <2>7, <3>1 DEF Look, PollingSteps
  <2>8. CASE StartInstance(c) \/ Running(c)
    BY <1>3, <1>6, <1>9, <2>8 DEF StartInstance, Running, PollingSteps
  <2> QED
    BY <1>11, <2>1, <2>2, <2>4, <2>5, <2>6, <2>7, <2>8 DEF Serve
<1>12. ASSUME NEW c \in Callers, Die(c) PROVE call' \in [Callers -> Calls]
  BY <1>3, <1>12 DEF Die
<1> QED
  BY <1>1, <1>10, <1>11, <1>12 DEF Next, vars, Complete, Cancel, Disconnect, Grow,
     StopIdle, Machine, GrowIdle, FindIdle, StopInstance, Stopped, InstanceUp, InstanceDown

LEMMA NextKeeps == IInv /\ [Next]_vars => IInv'
  BY SessionsKeep, CallsKeep DEF IInv, Typed

(* The inductive invariant: a request's variables fit the step it is at, the *)
(* rows of the sessions are well-formed, and leased ones are under way.      *)
THEOREM Invariant == Spec => []IInv
  BY InitIInv, NextKeeps, PTL DEF Spec

-----------------------------------------------------------------------------
(* No write by id that was decided on before - a poll's, a proxy's - leaves  *)
(* a session that has ended with the organisation's lease.                   *)
THEOREM LeaseSafe == Spec => []LeaseIsUnderWay
  BY Invariant, PTL DEF IInv
=============================================================================
