--------------------------- MODULE BrowserSessions ---------------------------
(***************************************************************************)
(* An organisation's browser VM and the sessions that drive it: viewers of   *)
(* its desktop and Codex terminals.  A session takes the organisation's      *)
(* lease of its kind (a unique leaseKey), is polled until the VM is up, and  *)
(* gives the lease back when it ends; a scheduled job stops an idle VM.      *)
(* Every statement that awaits another one is a step of its own.  The cloud  *)
(* instance is external: it is what the calls of GcpComputeService make it.  *)
(* Time is told apart as far as the code does: age 1 is past the             *)
(* provisioning timeout, age 2 past expiresAt; an idle VM has had no         *)
(* activity for fifteen minutes, longer than any request takes.              *)
(***************************************************************************)
EXTENDS Integers, Sequences, FiniteSets

CONSTANTS Users,
          Callers,     \* requests under way at a time
          Asks,        \* what a caller may ask for: users and kinds of session
          MaxSessions  \* bound on the sessions created

Kinds == {"viewer", "codex"}

ASSUME BrowserAssumption == /\ Asks \in [Callers -> SUBSET (Users \X Kinds)]
                            /\ MaxSessions \in Nat

VARIABLES
  vm,        \* the row: state, and whether lastActivityAt is long past
  instance,  \* the machine itself
  session,   \* the session rows, in the order they were created
  call,      \* where a request is, and what it has read
  stopper,   \* the job that stops an idle VM
  connected  \* sessions whose web socket is open

vars == <<vm, instance, session, call, stopper, connected>>

Active == {"provisioning", "ready", "active"}
Off == [at |-> "off"]
Steps == {"create", "recreate", "reset", "sweep", "find", "claim", "lost",
          "read", "expire", "look", "fail", "start", "started", "running", "touch", "ready",
          "upgrade"}
Ids == DOMAIN session

TypeOK ==
  /\ vm.state \in {"none", "provisioning", "starting", "running", "stopping", "error"}
  /\ vm.idle \in BOOLEAN
  /\ instance \in {"none", "staging", "running", "stopping", "terminated"}
  /\ session \in Seq([kind : Kinds, user : Users, status : Active \union {"ended"},
                      leased : BOOLEAN, age : 0..2])
  /\ Len(session) <= MaxSessions
  /\ \A c \in Callers : /\ call[c].at \in Steps \union {"off"}
                        /\ "id" \in DOMAIN call[c] => call[c].id \in Ids
                        /\ "kind" \in DOMAIN call[c] => /\ call[c].kind \in Kinds
                                                        /\ call[c].user \in Users
  /\ stopper \in {"off", "stop", "stopped"}
  /\ connected \subseteq Ids

(* No VM yet, or one that earlier sessions left running; they are not rows   *)
(* of session any more.                                                      *)
Init ==
  /\ \/ vm = [state |-> "none", idle |-> FALSE] /\ instance = "none"
     \/ vm = [state |-> "running", idle |-> TRUE] /\ instance = "running"
  /\ session = << >>
  /\ call = [c \in Callers |-> Off]
  /\ stopper = "off"
  /\ connected = {}

-----------------------------------------------------------------------------
Goto(c, at) == call' = [call EXCEPT ![c].at = at]
Return(c) == call' = [call EXCEPT ![c] = Off]
At(c, at) == call[c].at = at

(* A request about a session is its user's own (requireViewerSession). *)
Continue(c, at, s) == call' = [call EXCEPT ![c] = [at |-> at, id |-> s]]
MayAsk(c, s) == call[c] = Off /\ <<session[s].user, session[s].kind>> \in Asks[c]
Begin(c, at, s) == MayAsk(c, s) /\ Continue(c, at, s)

Unexpired(s) == session[s].status \in Active /\ session[s].age < 2
Spent(s) == session[s].status \in Active /\ session[s].age = 2
Holders(kind) == {s \in Ids : session[s].kind = kind /\ session[s].leased}

(* Mutant: the lease stays with a session that was ended. *)
Ended_KeepsLease(row) == [row EXCEPT !.status = "ended"]

(* A session that ends gives its lease back in the same statement; that it  *)
(* was completed, cancelled, expired or failed is not told apart.            *)
Ended(row) == [row EXCEPT !.status = "ended", !.leased = FALSE]

(* createViewerSession, createSession of the terminal: ensureVm comes first. *)
Opening == {c \in Callers : "kind" \in DOMAIN call[c]}

Open(c, user, kind) ==
  /\ call[c] = Off
  /\ <<user, kind>> \in Asks[c]
  /\ LET Start(at) == call' = [call EXCEPT ![c] = [at |-> at, kind |-> kind, user |-> user]] IN
     \/ /\ vm.state = "none"
        /\ vm' = [vm EXCEPT !.state = "provisioning"]
        /\ Start("create")
     \/ /\ vm.state # "none"
        /\ Start(IF vm.state = "error" /\ instance = "none" THEN "recreate" ELSE "sweep")
        /\ UNCHANGED vm
  /\ UNCHANGED <<instance, session, stopper, connected>>

(* compute.createInstance; there is one instance of the name at most.  What  *)
(* is accepted may still fail: nobody looks at the operation.                *)
CreateInstance(c) ==
  /\ call[c].at \in {"create", "recreate"} /\ instance = "none"
  /\ instance' \in {"staging", "none"}
  /\ Goto(c, IF At(c, "create") THEN "sweep" ELSE "reset")
  /\ UNCHANGED <<vm, session, stopper, connected>>

(* It fails of itself, or because another request has created it; only the   *)
(* first creation leaves the row in error.                                   *)
CreateInstanceFails(c) ==
  /\ call[c].at \in {"create", "recreate"}
  /\ vm' = IF At(c, "create") THEN [vm EXCEPT !.state = "error"] ELSE vm
  /\ Return(c)
  /\ UNCHANGED <<instance, session, stopper, connected>>

ResetVm(c) ==
  /\ At(c, "reset")
  /\ vm' = [vm EXCEPT !.state = "provisioning"]
  /\ Goto(c, "sweep")
  /\ UNCHANGED <<instance, session, stopper, connected>>

-----------------------------------------------------------------------------
(* Mutant: a session whose socket was opened is left to its user. *)
Swept_Unused(kind) == {s \in Holders(kind) : Spent(s) /\ session[s].status # "active"}

(* Which leases the sweep of a claim takes. *)
Swept(kind) == {s \in Holders(kind) : Spent(s)}

Sweep(c) ==
  /\ At(c, "sweep")
  /\ session' = [s \in Ids |-> IF s \in Swept(call[c].kind)
                               THEN Ended(session[s]) ELSE session[s]]
  /\ Goto(c, "find")
  /\ UNCHANGED <<vm, instance, stopper, connected>>

(* The holder's own user polls the session, another one is refused. *)
Answer(c, s) ==
  call' = [call EXCEPT ![c] = IF session[s].user = call[c].user
                              THEN [at |-> "read", id |-> s] ELSE Off]

Find(c) ==
  /\ At(c, "find")
  /\ IF Holders(call[c].kind) = {} THEN Goto(c, "claim")
     ELSE \E s \in Holders(call[c].kind) : Answer(c, s)
  /\ UNCHANGED <<vm, instance, session, stopper, connected>>

(* The unique leaseKey lets one insert through (P2002 for the others).       *)
(* MaxSessions is a bound: the request of a session beyond it ends here.     *)
Claim(c) ==
  /\ At(c, "claim")
  /\ \/ /\ Holders(call[c].kind) = {}
        /\ Len(session) = MaxSessions
        /\ Return(c)
        /\ UNCHANGED session
     \/ /\ Holders(call[c].kind) = {}
        /\ Len(session) < MaxSessions
        /\ session' = Append(session, [kind |-> call[c].kind, user |-> call[c].user,
                                       status |-> "provisioning", leased |-> TRUE, age |-> 0])
        /\ Return(c)
     \/ /\ Holders(call[c].kind) # {}
        /\ Goto(c, "lost")
        /\ UNCHANGED session
  /\ UNCHANGED <<vm, instance, stopper, connected>>

(* findUniqueOrThrow: the winner may have let go of the lease by now. *)
Lost(c) ==
  /\ At(c, "lost")
  /\ IF Holders(call[c].kind) = {} THEN Return(c)
     ELSE \E s \in Holders(call[c].kind) : Answer(c, s)
  /\ UNCHANGED <<vm, instance, session, stopper, connected>>

-----------------------------------------------------------------------------
(* Mutant: a machine is started only once its row says it has stopped. *)
MustStart_Stopped(state) == state = "stopped"

(* A start the row already tells of is not issued again. *)
MustStart(state) == state # "starting"

(* reconcileViewerSession, reconcileSession: a poll reads the session and    *)
(* the VM's row, then the machine, and writes by id what it concluded.       *)
Reads(s) ==
  IF session[s].status \notin Active THEN Off
  ELSE IF Spent(s) THEN [at |-> "expire", id |-> s]
  ELSE [at |-> "look", id |-> s, start |-> MustStart(vm.state),
        inUse |-> session[s].status = "active"]

Poll(c, s) ==
  /\ MayAsk(c, s)
  /\ session[s].status \in Active
  /\ call' = [call EXCEPT ![c] = Reads(s)]
  /\ UNCHANGED <<vm, instance, session, stopper, connected>>

PollHolder(c) ==
  /\ At(c, "read")
  /\ call' = [call EXCEPT ![c] = Reads(call[c].id)]
  /\ UNCHANGED <<vm, instance, session, stopper, connected>>

(* Ten minutes without a machine, counted from the terminal's creation or    *)
(* from that of the VM's row, which may be any time before the viewer's.     *)
MayTimeOut(s) == session[s].kind = "viewer" \/ session[s].age > 0
MayWait(s) == session[s].age = 0

Look(c) ==
  /\ At(c, "look")
  /\ LET s == call[c].id IN
     \/ instance = "none" /\ MayTimeOut(s) /\ Continue(c, "fail", s)
     \/ instance = "none" /\ MayWait(s) /\ Return(c)
     \/ instance = "terminated" /\ call[c].start /\ Continue(c, "start", s)
     \/ instance = "terminated" /\ ~call[c].start /\ Return(c)
     \/ instance = "running" /\ Continue(c, IF call[c].inUse THEN "touch" ELSE "running", s)
     \/ instance \in {"staging", "stopping"} /\ Return(c)
  /\ UNCHANGED <<vm, instance, session, stopper, connected>>

(* compute.startInstance, and the row's update after it; the operation may   *)
(* fail, and the machine stay as it is.                                      *)
StartInstance(c) ==
  /\ At(c, "start")
  /\ \/ instance = "terminated" /\ instance' = "staging"
     \/ UNCHANGED instance
  /\ Goto(c, "started")
  /\ UNCHANGED <<vm, session, stopper, connected>>

Started(c) ==
  /\ At(c, "started")
  /\ vm' = [vm EXCEPT !.state = "starting"]
  /\ Return(c)
  /\ UNCHANGED <<instance, session, stopper, connected>>

(* A machine that runs is noted.  A viewer's page was asked before that, the *)
(* terminal's ssh is after it, and may not answer; for a viewer there is no  *)
(* timeout then.                                                             *)
MayAnswer(s) == session[s].kind = "viewer" \/ instance = "running"
MayBeSilent(s) == session[s].kind = "viewer" \/ MayWait(s)

Running(c) ==
  /\ call[c].at \in {"running", "touch"}
  /\ vm' = [vm EXCEPT !.state = "running", !.idle = FALSE]
  /\ LET s == call[c].id IN
     \/ MayAnswer(s) /\ IF At(c, "running") THEN Goto(c, "ready") ELSE Return(c)
     \/ MayBeSilent(s) /\ Return(c)
     \/ session[s].kind = "codex" /\ MayTimeOut(s) /\ Goto(c, "fail")
  /\ UNCHANGED <<instance, session, stopper, connected>>

(* The last statement of a poll, by id and whatever the row says by now. *)
Write(c, at, row) ==
  /\ At(c, at)
  /\ session' = [session EXCEPT ![call[c].id] = row]
  /\ Return(c)
  /\ UNCHANGED <<instance, stopper, connected>>

Ready(c) == Write(c, "ready", [session[call[c].id] EXCEPT !.status = "ready"]) /\ UNCHANGED vm
Expire(c) == Write(c, "expire", Ended(session[call[c].id])) /\ UNCHANGED vm
Fail(c) == Write(c, "fail", Ended(session[call[c].id])) /\ UNCHANGED vm

(* completeViewerSession wants the session unexpired, logout of a terminal   *)
(* does not; cancelling is not even conditional.  Their reads are one step   *)
(* with their writes: on a session that ended in between they change nothing.*)
Complete(s) ==
  /\ session[s].status \in Active
  /\ session[s].kind = "viewer" => session[s].age < 2
  /\ session' = [session EXCEPT ![s] = Ended(@)]
  /\ vm' = [vm EXCEPT !.idle = FALSE]
  /\ UNCHANGED <<instance, call, stopper, connected>>

Cancel(s) ==
  /\ session[s].status \in Active
  /\ session' = [session EXCEPT ![s] = Ended(@)]
  /\ UNCHANGED <<vm, instance, call, stopper, connected>>

-----------------------------------------------------------------------------
(* The proxies: authorize reads, and the upgrade writes once the machine     *)
(* answers.  Nothing closes the socket when the session ends elsewhere.      *)
Connect(c, s) ==
  /\ s \notin connected
  /\ session[s].status \in {"ready", "active"} /\ session[s].age < 2
  /\ vm.state = "running"
  /\ Begin(c, "upgrade", s)
  /\ UNCHANGED <<vm, instance, session, stopper, connected>>

(* completeSession: a terminal ends with its socket, a viewer does not. *)
HungUp(closed) ==
  [s \in Ids |-> IF s \in closed /\ session[s].kind = "codex"
                    /\ session[s].status \in {"ready", "active"}
                 THEN Ended(session[s]) ELSE session[s]]

Upgrade(c) ==
  /\ At(c, "upgrade")
  /\ LET s == call[c].id IN
     IF instance = "running"
     THEN /\ session' = [session EXCEPT ![s].status = "active"]
          /\ connected' = connected \union {s}
          /\ vm' = [vm EXCEPT !.idle = FALSE]
     ELSE /\ session' = HungUp({s})
          /\ UNCHANGED <<vm, connected>>
  /\ Return(c)
  /\ UNCHANGED <<instance, stopper>>

Disconnect(s) ==
  /\ s \in connected
  /\ connected' = connected \ {s}
  /\ session' = HungUp({s})
  /\ UNCHANGED <<vm, instance, call, stopper>>

-----------------------------------------------------------------------------
(* Mutant: a session counts whatever its expiresAt. *)
Using_Expired == {s \in Ids : session[s].status \in Active}

(* Sessions that keep the VM from being stopped. *)
Using == {s \in Ids : Unexpired(s)}

(* stopIdleVm: what it reads, the call, and the row's update. *)
FindIdle ==
  /\ stopper = "off"
  /\ vm.state = "running" /\ vm.idle
  /\ Using = {}
  /\ stopper' = "stop"
  /\ UNCHANGED <<vm, instance, session, call, connected>>

StopInstance ==
  /\ stopper = "stop"
  /\ instance' = IF instance \in {"staging", "running"} THEN "stopping" ELSE instance
  /\ stopper' = "stopped"
  /\ UNCHANGED <<vm, session, call, connected>>

Stopped ==
  /\ stopper = "stopped"
  /\ vm' = [vm EXCEPT !.state = "stopping"]
  /\ stopper' = "off"
  /\ UNCHANGED <<instance, session, call, connected>>

(* The machine. *)
InstanceUp ==
  /\ instance = "staging"
  /\ instance' = "running"
  /\ UNCHANGED <<vm, session, call, stopper, connected>>

InstanceDown ==
  /\ instance = "stopping"
  /\ instance' = "terminated"
  /\ connected' = {}
  /\ session' = HungUp(connected)
  /\ UNCHANGED <<vm, call, stopper>>

(* Time; an idle VM has outlasted every request. *)
GrowIdle ==
  /\ vm.state = "running" /\ ~vm.idle
  /\ \A c \in Callers : call[c] = Off
  /\ vm' = [vm EXCEPT !.idle = TRUE]
  /\ UNCHANGED <<instance, session, call, stopper, connected>>

Grow(s) ==
  /\ Unexpired(s)
  /\ session' = [session EXCEPT ![s].age = @ + 1]
  /\ UNCHANGED <<vm, instance, call, stopper, connected>>

(* A request may die where the row and the machine differ; elsewhere a dead  *)
(* one has changed no more than one that was answered.                       *)
Die(c) ==
  /\ c \in Opening \/ At(c, "started")
  /\ Return(c)
  /\ UNCHANGED <<vm, instance, session, stopper, connected>>

-----------------------------------------------------------------------------
Serve(c) == \/ CreateInstance(c) \/ CreateInstanceFails(c) \/ ResetVm(c)
            \/ Sweep(c) \/ Find(c) \/ Claim(c) \/ Lost(c)
            \/ PollHolder(c) \/ Look(c) \/ StartInstance(c) \/ Started(c) \/ Running(c)
            \/ Ready(c) \/ Expire(c) \/ Fail(c) \/ Upgrade(c)

Ask(c) == \/ \E user \in Users, kind \in Kinds : Open(c, user, kind)
          \/ \E s \in Ids : Poll(c, s) \/ Connect(c, s)

StopIdle == FindIdle \/ StopInstance \/ Stopped
Machine == InstanceUp \/ InstanceDown

Next ==
  \/ \E c \in Callers : Ask(c) \/ Serve(c) \/ Die(c)
  \/ \E s \in Ids : Complete(s) \/ Cancel(s) \/ Disconnect(s) \/ Grow(s)
  \/ StopIdle \/ Machine \/ GrowIdle

Spec == Init /\ [][Next]_vars

(* Requests are served and the machine does what it was told; a page polls   *)
(* every three seconds while its session is provisioning; the job runs every *)
(* five minutes; ten minutes and fifteen pass, but nobody waits for expiry.  *)
(* A request does not die every time just after it had the machine started.  *)
Fairness ==
  /\ \A c \in Callers : WF_vars(Serve(c)) /\ SF_vars(Started(c))
  /\ \A s \in 1..MaxSessions :
       /\ SF_vars(s \in Ids /\ session[s].status = "provisioning"
                  /\ \E c \in Callers : Poll(c, s))
       /\ WF_vars(s \in Ids /\ session[s].age = 0 /\ Grow(s))
  /\ WF_vars(StopIdle) /\ WF_vars(Machine) /\ WF_vars(GrowIdle)

FairSpec == Spec /\ Fairness

-----------------------------------------------------------------------------
(* The sweep of a claim frees only leases of sessions that are under way, so *)
(* a session that ended with its lease would lock the organisation out for   *)
(* good: whatever order polls, completions, cancellations, failures and      *)
(* closing sockets write in, a leased session is one of those.               *)
LeaseIsUnderWay == \A s \in Ids : session[s].leased => session[s].status \in Active

(* A user who went away does not lock the organisation out: as long as       *)
(* requests for the browser get as far as their sweep (claimViewerSession),  *)
(* an expired session gives its lease up, whatever requests died and whatever*)
(* polls and sockets wrote to it late.                                       *)
ExpiredLeaseIsFreed ==
  \A s \in 1..MaxSessions :
    ~ /\ <>[](s \in Ids /\ session[s].leased /\ session[s].age = 2)
      /\ []<>(s \in Ids /\ \E c \in Opening : At(c, "find") /\ call[c].kind = session[s].kind)

Provisioning(s) == s \in Ids /\ session[s].status = "provisioning"

(* The machine is up and the viewer's page does not answer, or it did not    *)
(* start and its row says that it is starting.                               *)
Hangs(s) == \/ instance = "running" /\ session[s].kind = "viewer"
            \/ instance = "terminated" /\ vm.state = "starting"

(* Nothing else keeps a polled session provisioning until it expires,        *)
(* whatever creation failed or request died and however polls overlapped     *)
(* with the job that stops the VM.                                           *)
PollingEnds ==
  \A s \in 1..MaxSessions :
    <>[]Provisioning(s) => <>[](Provisioning(s) /\ Hangs(s))

(* Fails in these two cases. *)
PollingAlwaysEnds == \A s \in 1..MaxSessions : ~<>[]Provisioning(s)

Abandoned == /\ \A c \in Callers : call[c] = Off
             /\ \A s \in Ids : ~Unexpired(s)

(* A machine that its row says to be running is stopped once it is           *)
(* abandoned, and the row says so: sessions nobody closed do not keep it up. *)
AbandonedVmStops == ~<>[](vm.state = "running" /\ Abandoned)

(* Fails: a machine that was started, and abandoned before the next poll, is *)
(* provisioning or starting by its row, and the job looks for running ones.  *)
AbandonedMachineStops == ~<>[](instance = "running" /\ Abandoned)

(* "Another user is currently controlling this organization browser"         *)
(* (integration-browser.service.ts:109): sockets of one kind that are open   *)
(* at a time are one user's.  Fails: a lease ends, its socket does not.      *)
OneUserControls ==
  \A s, t \in connected : session[s].kind = session[t].kind => session[s].user = session[t].user
=============================================================================
