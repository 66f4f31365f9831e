------------------------ MODULE ServerMonitorProofs ------------------------
(***************************************************************************)
(* Proofs about module ServerMonitor, for any number of servers and of     *)
(* threads that select a server.                                           *)
(***************************************************************************)
EXTENDS ServerMonitor, WellFoundedInduction, TLAPS

InLoop == {"top", "poll", "update", "wait", "sleep"}

MonitorRec ==
  [state : {"none", "running", "shutting_down", "joinable", "off", "freed"},
   pc : InLoop \cup {"none", "returned", "joined"},
   scan : BOOLEAN, cancel : BOOLEAN, tv : BOOLEAN,
   due : {"long", "short"}]

(* The state of a monitor says where its thread is, and a thread that is   *)
(* told to stop will see it.                                               *)
Sound(r) ==
  /\ r \in MonitorRec
  /\ r.state \in {"running", "shutting_down"} <=> r.pc \in InLoop
  /\ r.state = "joinable" <=> r.pc = "returned"
  /\ r.state \in {"off", "freed"} <=> r.pc = "joined"
  /\ r.state = "shutting_down" => r.pc # "sleep" /\ (r.pc = "poll" => r.cancel)

\* A monitor that sleeps after a check does not await the next reply at once.
Rested(r) == r.pc \in {"wait", "sleep"} => ~r.tv

(* A monitor that will not sleep through a heartbeat, or has not begun to. *)
(* One that awaits a reply, or is about to, has its request still pending: *)
(* the check may be cancelled and no update then wakes the thread.         *)
Alert(r) ==
  r.state = "running" =>
    /\ r.pc \in {"wait", "sleep"} => r.due = "short" \/ r.scan
    /\ r.pc = "poll" \/ (r.pc = "top" /\ r.tv) => r.scan

MonitorsSound ==
  /\ mon \in [Monitors -> MonitorRec]
  /\ \A m \in Monitors : Sound(mon[m]) /\ (m[2] = "server" => Rested(mon[m]))

ThreadsSound ==
  /\ scanner \in {"off", "running", "shutting_down"}
  /\ sel \in [Selectors -> {"idle", "select", "waiting"}]
  /\ stop \in [pc : {"none", "announce", "count", "signal", "join", "done"},
               todo : SUBSET Monitors]

\* How far stop has come, and what that means for the others.
StopSound ==
  /\ stop.pc \in {"count", "signal", "join"} <=> scanner = "shutting_down"
  /\ stop.pc \notin {"signal", "join"} => stop.todo = {}
  /\ stop.pc # "none" => \A s \in Selectors : sel[s] = "idle"
  /\ \A m \in stop.todo : Exists(mon[m])
  /\ stop.pc = "join" => \A m \in Monitors : Exists(mon[m]) => m \in stop.todo
  /\ stop.pc = "done" =>
       /\ scanner = "off" /\ srv = "returned"
       /\ \A m \in Monitors : ~Exists(mon[m])

ScanSound ==
  (\E s \in Selectors : sel[s] = "waiting") =>
    \A m \in Monitors : m[2] = "server" => Alert(mon[m])

Inv == MonitorsSound /\ ThreadsSound /\ StopSound /\ ScanSound

-----------------------------------------------------------------------------
(* What the requests do to a monitor.                                      *)

\* A request to scan keeps the monitor alive and makes it alert.
LEMMA RequestScanSound ==
  ASSUME NEW r, Sound(r), r.state = "running"
  PROVE  /\ Sound(RequestScan(r)) /\ Alert(RequestScan(r))
         /\ Exists(RequestScan(r)) <=> Exists(r)
         /\ Rested(r) => Rested(RequestScan(r))
  BY DEF Sound, Rested, Alert, RequestScan, Signal, Exists, MonitorRec, InLoop

\* A request to cancel changes nothing that matters but the flag.
LEMMA RequestCancelSound ==
  ASSUME NEW r, Sound(r)
  PROVE  /\ Sound(RequestCancel(r))
         /\ Alert(r) => Alert(RequestCancel(r))
         /\ Exists(RequestCancel(r)) <=> Exists(r)
         /\ Rested(r) => Rested(RequestCancel(r))
  BY DEF Sound, Rested, Alert, RequestCancel, Signal, Exists, MonitorRec, InLoop

\* A monitor that was told to stop is awake, or its thread is joined at once.
LEMMA RequestShutdownSound ==
  ASSUME NEW r, Sound(r)
  PROVE  /\ Sound(RequestShutdown(r)) /\ Alert(RequestShutdown(r))
         /\ Exists(RequestShutdown(r)) <=> Exists(r)
         /\ Rested(r) => Rested(RequestShutdown(r))
<1>1. CASE r.state = "running"
  BY <1>1 DEF Sound, Rested, Alert, RequestShutdown, RequestCancel, Signal, Exists, MonitorRec, InLoop
<1>2. CASE r.state = "joinable"
  BY <1>2 DEF Sound, Rested, Alert, RequestShutdown, Join, Exists, MonitorRec, InLoop
<1>3. CASE r.state = "shutting_down"
  BY <1>3 DEF Sound, Rested, Alert, RequestShutdown, RequestCancel, Signal, Exists, MonitorRec, InLoop
<1>4. CASE r.state \in {"none", "off", "freed"}
  BY <1>4 DEF Sound, Rested, Alert, RequestShutdown, Exists, MonitorRec, InLoop
<1> QED
  BY <1>1, <1>2, <1>3, <1>4 DEF Sound, MonitorRec

\* A monitor is freed only after its thread was joined.
LEMMA RetireSound ==
  ASSUME NEW r, Sound(r)
  PROVE  Sound(Retire(r)) /\ Alert(Retire(r)) /\ (Rested(r) => Rested(Retire(r)))
  BY RequestShutdownSound DEF Sound, Rested, Alert, Retire, MonitorRec, InLoop

\* A new monitor is at the top of its loop.
LEMMA NewMonitorSound ==
  Sound(NewMonitor) /\ Rested(NewMonitor) /\ Alert(NewMonitor) /\ Exists(NewMonitor)
  BY DEF Sound, Rested, Alert, NewMonitor, NoMonitor, Exists, MonitorRec, InLoop

\* stop finds a next monitor as long as there is one left.
LEMMA FirstIsOne ==
  ASSUME NEW S \in SUBSET Monitors, S # {}
  PROVE  First(S) \in S
<1> DEFINE K == IF \E m \in S : m[2] = "server" THEN "server" ELSE "rtt"
           T == {i \in Nat : <<i, K>> \in S}
<1>1. T # {}
  BY DEF Monitors, Ids
<1>2. PICK i \in T : \A j \in T : ~(<<j, i>> \in OpToRel(<, Nat))
  BY <1>1, WFMin, NatLessThanWellFounded
<1>3. \A j \in T : i <= j
  <2>1. \A j \in Nat : j < i => <<j, i>> \in OpToRel(<, Nat)
    <3> SUFFICES ASSUME NEW j \in Nat, j < i PROVE <<j, i>> \in OpToRel(<, Nat)
      OBVIOUS
    <3>1. <<j, i>> \in Nat \X Nat /\ <<j, i>>[1] < <<j, i>>[2]
      OBVIOUS
    <3> QED
      BY <3>1, Zenon DEF OpToRel
  <2>2. \A j \in T : ~(j < i)
    BY <1>2, <2>1
  <2> QED
    BY <2>2
<1>4. <<i, K>> \in S
  OBVIOUS
<1>5. \A n \in S : IF K = n[2] THEN i <= n[1] ELSE K = "server"
  BY <1>3 DEF Monitors, Ids
<1>6. \E m \in S : \A n \in S : IF m[2] = n[2] THEN m[1] <= n[1] ELSE m[2] = "server"
  BY <1>4, <1>5
<1> QED
  BY <1>6 DEF First

-----------------------------------------------------------------------------
(* The invariant holds initially.                                          *)
LEMMA InitInv == Init => Inv
<1> SUFFICES ASSUME Init PROVE Inv
  OBVIOUS
<1>1. Sound(NoMonitor) /\ Rested(NoMonitor) /\ ~Exists(NoMonitor)
  BY DEF Sound, Rested, NoMonitor, Exists, MonitorRec, InLoop
<1>2. MonitorsSound
  BY <1>1 DEF Init, MonitorsSound, Sound
<1> QED
  BY <1>1, <1>2 DEF Init, Inv, ThreadsSound, StopSound, ScanSound

(* A step of one monitor that stays, and falls asleep only if it may,      *)
(* keeps the invariant.                                                    *)
LEMMA OneMonitor ==
  ASSUME Inv, NEW m \in Monitors,
         mon' \in [Monitors -> MonitorRec],
         \A n \in Monitors : n # m => mon'[n] = mon[n],
         Sound(mon'[m]), Exists(mon'[m]) <=> Exists(mon[m]),
         m[2] = "server" => Rested(mon'[m]),
         m[2] = "server" /\ (\E s \in Selectors : sel[s] = "waiting") =>
           (Alert(mon[m]) => Alert(mon'[m])),
         UNCHANGED <<scanner, sel, srv, stop>>
  PROVE  Inv'
<1>1. MonitorsSound'
  BY DEF Inv, MonitorsSound
<1>2. ThreadsSound'
  BY DEF Inv, ThreadsSound
<1>3. \A n \in Monitors : Exists(mon'[n]) <=> Exists(mon[n])
  OBVIOUS
<1>4. StopSound'
  BY <1>3 DEF Inv, StopSound, ThreadsSound
<1>5. ScanSound'
  BY DEF Inv, ScanSound
<1> QED
  BY <1>1, <1>2, <1>4, <1>5 DEF Inv

\* The same, if the monitor that steps becomes r.
LEMMA Becomes ==
  ASSUME Inv, NEW m \in Monitors, NEW r, mon' = [mon EXCEPT ![m] = r],
         Sound(r), Exists(r), Exists(mon[m]),
         m[2] = "server" => Rested(r),
         m[2] = "server" /\ (\E s \in Selectors : sel[s] = "waiting") =>
           (Alert(mon[m]) => Alert(r)),
         UNCHANGED <<scanner, sel, srv, stop>>
  PROVE  Inv'
<1>1. mon \in [Monitors -> MonitorRec] /\ r \in MonitorRec
  BY DEF Inv, MonitorsSound, Sound
<1>2. /\ mon' \in [Monitors -> MonitorRec] /\ mon'[m] = r
      /\ \A n \in Monitors : n # m => mon'[n] = mon[n]
  BY <1>1
<1> QED
  BY <1>2, OneMonitor

\* The steps of a monitor thread between two updates of the description.
LEMMA MonitorKeeps ==
  ASSUME Inv, NEW m \in Monitors,
         Top(m) \/ PollCancelled(m) \/ PollEnds(m) \/ UpdateSkipped(m)
           \/ Wait(m) \/ SleepEnds(m)
  PROVE  Inv'
<1>0. /\ mon \in [Monitors -> MonitorRec] /\ Sound(mon[m])
      /\ m[2] = "server" => Rested(mon[m])
  BY DEF Inv, MonitorsSound
<1>1. CASE Top(m)
  <2>1. CASE mon[m].state # "running"
    <3> DEFINE r == [NoMonitor EXCEPT !.pc = "returned", !.state = "joinable"]
    <3>1. mon' = [mon EXCEPT ![m] = r]
      BY <1>0, <1>1, <2>1 DEF Top
    <3>2. r.state = "joinable" /\ r.pc = "returned" /\ r \in MonitorRec
      BY DEF NoMonitor, MonitorRec, InLoop
    <3>3. Sound(r) /\ Rested(r) /\ Exists(r) /\ Alert(r) /\ r \in MonitorRec
      BY <3>2 DEF Sound, Rested, Exists, Alert, InLoop
    <3>4. Exists(mon[m])
      BY <1>0, <1>1 DEF Top, Sound, Rested, Exists, MonitorRec, InLoop
    <3>5. UNCHANGED <<scanner, sel, srv, stop>>
      BY <1>1 DEF Top
    <3> HIDE DEF r
    <3> QED
      BY <1>0, <3>1, <3>3, <3>4, <3>5, OneMonitor
  <2>2. CASE mon[m].state = "running" /\ m[2] = "rtt"
    <3>1. mon' = [mon EXCEPT ![m] = [mon[m] EXCEPT !.pc = "sleep"]]
      BY <1>0, <1>1, <2>2 DEF Top
    <3>2. m[2] # "server"
      BY <2>2
    <3>3. Sound(mon'[m]) /\ Exists(mon'[m]) /\ mon' \in [Monitors -> MonitorRec]
      BY <1>0, <1>1, <2>2, <3>1 DEF Top, Sound, Rested, Exists, MonitorRec, InLoop
    <3>4. /\ \A n \in Monitors : n # m => mon'[n] = mon[n]
          /\ UNCHANGED <<scanner, sel, srv, stop>>
      BY <1>0, <1>1, <3>1 DEF Top
    <3> QED
      BY <2>2, <3>2, <3>3, <3>4, OneMonitor DEF Exists
  <2>3. CASE mon[m].state = "running" /\ m[2] # "rtt"
    <3> DEFINE pc == IF mon[m].tv THEN "poll" ELSE "update"
               r == [mon[m] EXCEPT !.pc = pc]
    <3>1. mon' = [mon EXCEPT ![m] = r]
      BY <1>0, <1>1, <2>3 DEF Top
    <3>2. /\ Sound(r) /\ Rested(r) /\ Exists(r) /\ Exists(mon[m])
          /\ Alert(mon[m]) => Alert(r)
      BY <1>0, <1>1, <2>3 DEF Top, Sound, Rested, Exists, Alert, MonitorRec, InLoop
    <3>3. UNCHANGED <<scanner, sel, srv, stop>>
      BY <1>1 DEF Top
    <3> HIDE DEF r
    <3> QED
      BY <3>1, <3>2, <3>3, Becomes DEF r
  <2> QED
    BY <2>1, <2>2, <2>3
<1>2. CASE PollCancelled(m)
  <2> DEFINE r == [mon[m] EXCEPT !.pc = "wait", !.cancel = FALSE, !.tv = FALSE]
  <2>1. mon' = [mon EXCEPT ![m] = r]
    BY <1>0, <1>2 DEF PollCancelled
  <2>2. /\ Sound(r) /\ Rested(r) /\ Exists(r) /\ Exists(mon[m])
        /\ Alert(mon[m]) => Alert(r)
    BY <1>0, <1>2 DEF PollCancelled, Sound, Rested, Exists, Alert, MonitorRec, InLoop
  <2>3. UNCHANGED <<scanner, sel, srv, stop>>
    BY <1>2 DEF PollCancelled
  <2> HIDE DEF r
  <2> QED
    BY <2>1, <2>2, <2>3, Becomes
<1>3. CASE PollEnds(m)
  <2> DEFINE r == [mon[m] EXCEPT !.pc = "update"]
  <2>1. mon' = [mon EXCEPT ![m] = r]
    BY <1>0, <1>3 DEF PollEnds, Goto
  <2>2. Sound(r) /\ Rested(r) /\ Exists(r) /\ Alert(r) /\ Exists(mon[m])
    BY <1>0, <1>3 DEF PollEnds, Sound, Rested, Exists, Alert, MonitorRec, InLoop
  <2>3. UNCHANGED <<scanner, sel, srv, stop>>
    BY <1>3 DEF PollEnds
  <2> HIDE DEF r
  <2> QED
    BY <2>1, <2>2, <2>3, Becomes
<1>4. CASE UpdateSkipped(m)
  <2>1. ~\E s \in Selectors : sel[s] = "waiting"
    BY <1>4 DEF UpdateSkipped, Inv, StopSound
  <2>2. PICK ok \in BOOLEAN, pc \in {"top", "wait"} :
          /\ (ok => pc = IF m[1] \in Streaming THEN "top" ELSE "wait")
          /\ mon' = [mon EXCEPT ![m] = [mon[m] EXCEPT !.pc = pc, !.due = "long",
                                                     !.tv = ok /\ m[1] \in Streaming]]
    BY <1>0, <1>4 DEF UpdateSkipped
  <2> DEFINE tv == ok /\ m[1] \in Streaming
             r == [mon[m] EXCEPT !.pc = pc, !.due = "long", !.tv = tv]
  <2>5. tv \in BOOLEAN /\ (pc = "wait" => ~tv)
    BY <2>2
  <2>3. Sound(r) /\ Rested(r) /\ Exists(r) /\ Exists(mon[m])
    <3> HIDE DEF tv
    <3> QED
      BY <1>0, <1>4, <2>5 DEF UpdateSkipped, Sound, Rested, Exists, MonitorRec, InLoop
  <2>4. UNCHANGED <<scanner, sel, srv, stop>>
    BY <1>4 DEF UpdateSkipped
  <2> HIDE DEF r
  <2> QED
    BY <2>1, <2>2, <2>3, <2>4, Becomes DEF r
<1>5. CASE Wait(m)
  <2>1. CASE mon[m].state # "running"
    <3>1. mon' = [mon EXCEPT ![m] = [mon[m] EXCEPT !.pc = "top"]]
      BY <1>0, <1>5, <2>1 DEF Wait
    <3> DEFINE r == [mon[m] EXCEPT !.pc = "top"]
    <3>2. Sound(r) /\ Rested(r) /\ Exists(r) /\ Alert(r) /\ Exists(mon[m])
      BY <1>0, <1>5, <2>1 DEF Wait, Sound, Rested, Exists, Alert, MonitorRec, InLoop
    <3>3. UNCHANGED <<scanner, sel, srv, stop>>
      BY <1>5 DEF Wait
    <3> HIDE DEF r
    <3> QED
      BY <3>1, <3>2, <3>3, Becomes DEF r
  <2>2. CASE mon[m].state = "running"
    <3> DEFINE due == IF mon[m].scan THEN "short" ELSE mon[m].due
               r == [mon[m] EXCEPT !.pc = "sleep", !.scan = FALSE, !.due = due]
    <3>1. mon' = [mon EXCEPT ![m] = r]
      BY <1>0, <1>5, <2>2 DEF Wait
    <3>2. due \in {"long", "short"}
      BY <1>0 DEF MonitorRec
    <3>3. /\ Sound(r) /\ Exists(r) /\ r \in MonitorRec
          /\ m[2] = "server" => Rested(r)
      BY <1>0, <1>5, <2>2, <3>2 DEF Wait, Sound, Rested, Exists, MonitorRec, InLoop
    <3>4. Alert(mon[m]) => Alert(r)
      BY <1>0, <1>5, <2>2, <3>2 DEF Wait, Alert, MonitorRec
    <3>5. UNCHANGED <<scanner, sel, srv, stop>>
      BY <1>5 DEF Wait
    <3> HIDE DEF r
    <3> QED
      BY <1>0, <2>2, <3>1, <3>3, <3>4, <3>5, OneMonitor DEF Exists
  <2> QED
    BY <2>1, <2>2
<1>6. CASE SleepEnds(m)
  <2> DEFINE r == [mon[m] EXCEPT !.pc = "top", !.due = "long"]
  <2>1. mon' = [mon EXCEPT ![m] = r]
    BY <1>0, <1>6 DEF SleepEnds
  <2>2. /\ Sound(r) /\ Rested(r) /\ Exists(r) /\ Exists(mon[m])
        /\ m[2] = "server" => Alert(r)
    BY <1>0, <1>6 DEF SleepEnds, Sound, Rested, Exists, Alert, MonitorRec, InLoop
  <2>3. UNCHANGED <<scanner, sel, srv, stop>>
    BY <1>6 DEF SleepEnds
  <2> HIDE DEF r
  <2> QED
    BY <2>1, <2>2, <2>3, Becomes
<1> QED
  BY <1>1, <1>2, <1>3, <1>4, <1>5, <1>6

-----------------------------------------------------------------------------
\* Reconciling starts and retires monitors, unless the pool is shutting down.
LEMMA ReconcileSound ==
  ASSUME NEW ms \in [Monitors -> MonitorRec],
         \A m \in Monitors : Sound(ms[m]) /\ (m[2] = "server" => Rested(ms[m])),
         Reconcile(ms)
  PROVE  /\ mon' \in [Monitors -> MonitorRec]
         /\ \A m \in Monitors : Sound(mon'[m]) /\ (m[2] = "server" => Rested(mon'[m]))
         /\ scanner # "running" => mon' = ms
<1>1. CASE scanner # "running"
  BY <1>1 DEF Reconcile
<1>2. CASE scanner = "running"
  <2> DEFINE R(m) == CASE Needed(m) /\ ~Exists(ms[m]) -> NewMonitor
                       [] m[1] \notin listed' /\ Exists(ms[m]) -> Retire(ms[m])
                       [] OTHER -> ms[m]
  <2>1. mon' = [m \in Monitors |-> R(m)]
    BY <1>2 DEF Reconcile
  <2>2. \A m \in Monitors : Sound(R(m)) /\ (m[2] = "server" => Rested(R(m)))
    <3> TAKE m \in Monitors
    <3>1. CASE Needed(m) /\ ~Exists(ms[m])
      <4>1. R(m) = NewMonitor
        BY <3>1
      <4> QED
        BY <4>1, NewMonitorSound
    <3>2. CASE m[1] \notin listed' /\ Exists(ms[m])
      <4>1. R(m) = Retire(ms[m])
        BY <3>2
      <4> QED
        BY <4>1, RetireSound
    <3>3. CASE ~(Needed(m) /\ ~Exists(ms[m])) /\ ~(m[1] \notin listed' /\ Exists(ms[m]))
      <4>1. R(m) = ms[m]
        BY <3>3
      <4> QED
        BY <4>1
    <3> QED
      BY <3>1, <3>2, <3>3
  <2> HIDE DEF R
  <2>3. \A m \in Monitors : mon'[m] = R(m)
    BY <2>1
  <2>4. \A m \in Monitors : R(m) \in MonitorRec
    BY <2>2 DEF Sound
  <2> QED
    BY <1>2, <2>1, <2>2, <2>3, <2>4
<1> QED
  BY <1>1, <1>2

(* A change of the description: everybody who waits is woken up, and once  *)
(* stop has begun to count nothing is started or retired.                  *)
LEMMA PublishKeeps ==
  ASSUME Inv, NEW ms \in [Monitors -> MonitorRec],
         \A m \in Monitors : /\ Sound(ms[m]) /\ (Exists(ms[m]) <=> Exists(mon[m]))
                             /\ m[2] = "server" => Rested(ms[m]),
         Reconcile(ms), Broadcast, UNCHANGED <<scanner, srv, stop>>
  PROVE  Inv'
<1>1. /\ mon' \in [Monitors -> MonitorRec]
      /\ \A m \in Monitors : Sound(mon'[m]) /\ (m[2] = "server" => Rested(mon'[m]))
      /\ scanner # "running" => mon' = ms
  BY ReconcileSound
<1>2. /\ sel' \in [Selectors -> {"idle", "select"}]
      /\ \A s \in Selectors : sel[s] = "idle" => sel'[s] = "idle"
  BY DEF Broadcast, Inv, ThreadsSound
<1>3. MonitorsSound' /\ ThreadsSound'
  BY <1>1, <1>2 DEF Inv, MonitorsSound, ThreadsSound
<1>4. StopSound'
  <2>1. CASE scanner = "running"
    <3>1. stop.pc \notin {"signal", "join", "done"} /\ stop.todo = {}
      BY <2>1 DEF Inv, StopSound
    <3> QED
      BY <1>2, <2>1, <3>1 DEF Inv, StopSound
  <2>2. CASE scanner # "running"
    <3>1. \A m \in Monitors : Exists(mon'[m]) <=> Exists(mon[m])
      BY <1>1, <2>2
    <3> QED
      BY <1>2, <2>2, <3>1 DEF Inv, StopSound, ThreadsSound
  <2> QED
    BY <2>1, <2>2
<1>5. ScanSound'
  BY <1>2 DEF ScanSound
<1> QED
  BY <1>3, <1>4, <1>5 DEF Inv

\* A monitor applies a reply or an error.
LEMMA UpdateKeeps ==
  ASSUME Inv, NEW m \in Monitors, Update(m)
  PROVE  Inv'
<1>1. PICK ok \in BOOLEAN, pc \in {"top", "wait"} :
        /\ (ok => pc = IF m[1] \in Streaming THEN "top" ELSE "wait")
        /\ Reconcile([mon EXCEPT ![m] = [@ EXCEPT !.pc = pc, !.scan = FALSE, !.due = "long",
                                                  !.tv = ok /\ m[1] \in Streaming]])
  BY DEF Update
<1> DEFINE tv == ok /\ m[1] \in Streaming
           r == [mon[m] EXCEPT !.pc = pc, !.scan = FALSE, !.due = "long", !.tv = tv]
           ms == [mon EXCEPT ![m] = r]
<1>2. mon \in [Monitors -> MonitorRec] /\ Sound(mon[m]) /\ mon[m].pc = "update"
  BY DEF Inv, MonitorsSound, Update
<1>3. tv \in BOOLEAN /\ (pc = "wait" => ~tv)
  BY <1>1
<1>4. Sound(r) /\ Rested(r) /\ r \in MonitorRec /\ (Exists(r) <=> Exists(mon[m]))
  <2> HIDE DEF tv
  <2> QED
    BY <1>2, <1>3 DEF Sound, Rested, MonitorRec, InLoop, Exists
<1>5. Reconcile(ms) /\ Broadcast /\ UNCHANGED <<scanner, srv, stop>>
  BY <1>1 DEF Update
<1> HIDE DEF r
<1>6. /\ ms \in [Monitors -> MonitorRec]
      /\ \A n \in Monitors : /\ Sound(ms[n]) /\ (Exists(ms[n]) <=> Exists(mon[n]))
                             /\ n[2] = "server" => Rested(ms[n])
  BY <1>2, <1>4 DEF Inv, MonitorsSound
<1> HIDE DEF ms
<1> QED
  BY <1>5, <1>6, PublishKeeps

-----------------------------------------------------------------------------
(* The application.                                                        *)

\* A request to scan reaches every monitor that runs.
LEMMA RequestScansSound ==
  ASSUME Inv, RequestScans
  PROVE  /\ mon' \in [Monitors -> MonitorRec]
         /\ \A m \in Monitors : Sound(mon'[m]) /\ (Exists(mon'[m]) <=> Exists(mon[m]))
         /\ \A m \in Monitors : m[2] = "server" => Alert(mon'[m]) /\ Rested(mon'[m])
<1> DEFINE R(m) == IF m[2] = "server" /\ mon[m].state = "running"
                     THEN RequestScan(mon[m]) ELSE mon[m]
<1>1. mon' = [m \in Monitors |-> R(m)]
  BY DEF RequestScans
<1>2. \A m \in Monitors : /\ Sound(R(m)) /\ (Exists(R(m)) <=> Exists(mon[m]))
                          /\ m[2] = "server" => Alert(R(m)) /\ Rested(R(m))
  <2> TAKE m \in Monitors
  <2>0. Sound(mon[m]) /\ (m[2] = "server" => Rested(mon[m]))
    BY DEF Inv, MonitorsSound
  <2>1. CASE m[2] = "server" /\ mon[m].state = "running"
    BY <2>0, <2>1, RequestScanSound
  <2>2. CASE ~(m[2] = "server" /\ mon[m].state = "running")
    BY <2>0, <2>2 DEF Alert
  <2> QED
    BY <2>1, <2>2
<1> HIDE DEF R
<1> QED
  BY <1>1, <1>2 DEF Sound

\* Start, before anybody waits for a server.
LEMMA StartKeeps ==
  ASSUME Inv, Start
  PROVE  Inv'
<1>1. <<1, "server">> \in Monitors
  BY MonitorAssumption DEF Monitors, Ids
<1>2. /\ mon' \in [Monitors -> MonitorRec]
      /\ \A m \in Monitors : mon'[m] \in {mon[m], NewMonitor}
  BY <1>1, NewMonitorSound DEF Start, Inv, MonitorsSound, Sound
<1>3. MonitorsSound'
  BY <1>2, NewMonitorSound DEF Inv, MonitorsSound
<1>4. ThreadsSound' /\ StopSound'
  BY DEF Start, Inv, ThreadsSound, StopSound
<1>5. ScanSound'
  BY <1>2, NewMonitorSound DEF Start, Inv, ScanSound
<1> QED
  BY <1>3, <1>4, <1>5 DEF Inv

\* A thread selects a server: it waits only after it has requested a scan.
LEMMA SelectKeeps ==
  ASSUME Inv, NEW s \in Selectors, BeginSelect(s) \/ Select(s) \/ SelectTimeout(s)
  PROVE  Inv'
<1>0. UNCHANGED <<scanner, srv, stop>>
  BY DEF BeginSelect, Select, SelectTimeout
<1>1. CASE UNCHANGED mon /\ \E pc \in {"idle", "select"} :
             sel' = [sel EXCEPT ![s] = pc] /\ (stop.pc # "none" => pc = "idle")
  BY <1>0, <1>1 DEF Inv, MonitorsSound, ThreadsSound, StopSound, ScanSound
<1>2. CASE sel[s] = "select" /\ sel' = [sel EXCEPT ![s] = "waiting"] /\ RequestScans
  <2>1. stop.pc = "none"
    BY <1>2 DEF Inv, StopSound
  <2>2. MonitorsSound' /\ ThreadsSound'
    BY <1>0, <1>2, RequestScansSound DEF Inv, MonitorsSound, ThreadsSound
  <2>3. StopSound'
    BY <1>0, <2>1, RequestScansSound DEF Inv, StopSound
  <2>4. ScanSound'
    BY <1>2, RequestScansSound DEF ScanSound
  <2> QED
    BY <2>2, <2>3, <2>4 DEF Inv
<1> QED
  BY <1>1, <1>2 DEF BeginSelect, Running, Select, SelectTimeout

\* A handshake or an error seen by an application thread.
LEMMA ApplicationKeeps ==
  ASSUME Inv, NEW id \in Ids, Handshake(id) \/ NetworkError(id) \/ CommandError(id)
  PROVE  Inv'
<1>0. /\ mon \in [Monitors -> MonitorRec]
      /\ \A m \in Monitors : Sound(mon[m]) /\ (m[2] = "server" => Rested(mon[m]))
  BY DEF Inv, MonitorsSound
<1>1. CASE Handshake(id)
  BY <1>0, <1>1, PublishKeeps DEF Handshake
<1>2. CASE NetworkError(id)
  <2> DEFINE m == <<id, "server">>
  <2>1. m \in Monitors
    BY DEF Monitors
  <2>2. mon'[m] \in {mon[m], RequestCancel(mon[m])} /\ DOMAIN mon' = Monitors
    BY <1>0, <1>2, <2>1 DEF NetworkError
  <2>3. \A n \in Monitors : n # m => mon'[n] = mon[n]
    BY <1>0, <1>2, <2>1 DEF NetworkError
  <2>4. /\ Sound(mon'[m]) /\ (Exists(mon'[m]) <=> Exists(mon[m]))
        /\ Rested(mon'[m]) /\ (Alert(mon[m]) => Alert(mon'[m]))
    BY <1>0, <2>1, <2>2, RequestCancelSound
  <2>5. mon' \in [Monitors -> MonitorRec]
    <3>1. mon'[m] \in MonitorRec
      BY <2>4 DEF Sound
    <3>2. mon' = [mon EXCEPT ![m] = mon'[m]]
      BY <1>0, <1>2, <2>1 DEF NetworkError
    <3> QED
      BY <1>0, <2>1, <3>1, <3>2
  <2>6. UNCHANGED <<scanner, sel, srv, stop>>
    BY <1>2 DEF NetworkError
  <2> QED
    BY <2>1, <2>3, <2>4, <2>5, <2>6, OneMonitor
<1>3. CASE CommandError(id)
  <2>1. RequestScans /\ UNCHANGED <<scanner, sel, srv, stop>>
    BY <1>3 DEF CommandError
  <2>2. MonitorsSound' /\ ThreadsSound'
    BY <2>1, RequestScansSound DEF Inv, MonitorsSound, ThreadsSound
  <2>3. StopSound'
    BY <2>1, RequestScansSound DEF Inv, StopSound, ThreadsSound
  <2>4. ScanSound'
    BY <2>1, RequestScansSound DEF ScanSound
  <2> QED
    BY <2>2, <2>3, <2>4 DEF Inv
<1> QED
  BY <1>1, <1>2, <1>3

-----------------------------------------------------------------------------
\* The SRV polling thread changes no monitor.
LEMMA SrvKeeps ==
  ASSUME Inv, SrvEnds \/ SrvLook \/ SrvScan \/ SrvWait \/ SrvSleepEnds
  PROVE  Inv'
<1>1. UNCHANGED <<scanner, mon, sel, stop>> /\ srv # "returned"
  BY DEF SrvEnds, SrvLook, SrvScan, SrvWait, SrvSleepEnds
<1>2. stop.pc # "done"
  BY <1>1 DEF Inv, StopSound
<1> QED
  BY <1>1, <1>2 DEF Inv, MonitorsSound, ThreadsSound, StopSound, ScanSound

-----------------------------------------------------------------------------
(* The destruction of the pool.                                            *)

\* The steps of stop that touch no monitor.
LEMMA StopTurnsKeep ==
  ASSUME Inv, StopBegin \/ StopAnnounce \/ StopCount \/ StopSignalled \/ StopDone
  PROVE  Inv'
<1>1. UNCHANGED mon
  BY DEF StopBegin, StopAnnounce, StopCount, StopSignalled, StopDone
<1>2. MonitorsSound'
  BY <1>1 DEF Inv, MonitorsSound
<1>3. CASE StopBegin
  BY <1>2, <1>3 DEF StopBegin, Inv, ThreadsSound, StopSound, ScanSound
<1>4. CASE StopAnnounce
  BY <1>2, <1>4 DEF StopAnnounce, Inv, ThreadsSound, StopSound, ScanSound
<1>5. CASE StopCount
  BY <1>2, <1>5 DEF StopCount, InSets, Inv, ThreadsSound, StopSound, ScanSound
<1>6. CASE StopSignalled
  BY <1>2, <1>6 DEF StopSignalled, InSets, Inv, ThreadsSound, StopSound, ScanSound
<1>7. CASE StopDone
  <2>1. sel' = sel
    BY <1>7 DEF StopDone, Broadcast, Inv, ThreadsSound, StopSound
  <2> QED
    BY <1>2, <1>7, <2>1 DEF StopDone, Inv, ThreadsSound, StopSound, ScanSound
<1> QED
  BY <1>3, <1>4, <1>5, <1>6, <1>7

\* A monitor that is told to stop still exists.
LEMMA StopSignalKeeps ==
  ASSUME Inv, StopSignal
  PROVE  Inv'
<1> DEFINE m == First(stop.todo)
<1>0. mon \in [Monitors -> MonitorRec] /\ stop.todo \in SUBSET Monitors
  BY DEF Inv, MonitorsSound, ThreadsSound
<1>1. m \in stop.todo /\ m \in Monitors
  BY <1>0, FirstIsOne DEF StopSignal
<1> HIDE DEF m
<1>2. mon' = [mon EXCEPT ![m] = RequestShutdown(mon[m])]
  BY <1>0, <1>1 DEF StopSignal, m
<1>3. /\ m[2] = "server" => Rested(RequestShutdown(mon[m]))
      /\ Sound(RequestShutdown(mon[m])) /\ (Exists(RequestShutdown(mon[m])) <=> Exists(mon[m]))
  BY <1>1, RequestShutdownSound DEF Inv, MonitorsSound
<1>4. MonitorsSound'
  BY <1>0, <1>1, <1>2, <1>3 DEF Inv, MonitorsSound, Sound
<1>5. \A n \in Monitors : Exists(mon'[n]) <=> Exists(mon[n])
  BY <1>0, <1>1, <1>2, <1>3
<1>6. /\ stop.pc = "signal" /\ stop'.pc = "signal"
      /\ stop'.todo = stop.todo \ {m}
      /\ stop' \in [pc : {"signal"}, todo : SUBSET Monitors]
      /\ UNCHANGED <<scanner, sel, srv>>
  BY <1>0 DEF StopSignal, m, Inv, ThreadsSound
<1>7. ThreadsSound'
  BY <1>6 DEF Inv, ThreadsSound
<1>8. StopSound'
  BY <1>0, <1>5, <1>6 DEF Inv, StopSound
<1>9. ScanSound'
  BY <1>6 DEF Inv, StopSound, ScanSound
<1> QED
  BY <1>4, <1>7, <1>8, <1>9 DEF Inv

\* A monitor is freed after its thread was joined, and is not met again.
LEMMA StopJoinKeeps ==
  ASSUME Inv, StopJoin
  PROVE  Inv'
<1> DEFINE m == First(stop.todo)
           r == [(IF mon[m].state = "off" THEN mon[m] ELSE Join(mon[m]))
                   EXCEPT !.state = "freed"]
<1>0. mon \in [Monitors -> MonitorRec] /\ stop.todo \in SUBSET Monitors
  BY DEF Inv, MonitorsSound, ThreadsSound
<1>1. m \in stop.todo /\ m \in Monitors
  BY <1>0, FirstIsOne DEF StopJoin
<1> HIDE DEF m
<1>2. mon' = [mon EXCEPT ![m] = r]
  BY <1>0, <1>1 DEF StopJoin, m
<1>3. Sound(mon[m]) /\ (mon[m].state = "off" \/ mon[m].pc = "returned")
  BY <1>1 DEF Inv, MonitorsSound, StopJoin, m
<1>4. Sound(r) /\ Rested(r) /\ ~Exists(r)
  BY <1>3 DEF Sound, Rested, Join, Exists, MonitorRec, InLoop
<1> HIDE DEF r
<1>5. MonitorsSound'
  BY <1>0, <1>1, <1>2, <1>4 DEF Inv, MonitorsSound, Sound
<1>6. /\ \A n \in Monitors : n # m => mon'[n] = mon[n]
      /\ ~Exists(mon'[m])
  BY <1>0, <1>1, <1>2, <1>4
<1>7. /\ stop.pc = "join" /\ stop'.pc = "join"
      /\ stop'.todo = stop.todo \ {m}
      /\ stop' \in [pc : {"join"}, todo : SUBSET Monitors]
      /\ UNCHANGED <<scanner, sel, srv>>
  BY <1>0 DEF StopJoin, m, Inv, ThreadsSound
<1>8. ThreadsSound'
  BY <1>7 DEF Inv, ThreadsSound
<1>9. StopSound'
  BY <1>0, <1>6, <1>7 DEF Inv, StopSound
<1>10. ScanSound'
  BY <1>7 DEF Inv, StopSound, ScanSound
<1> QED
  BY <1>5, <1>8, <1>9, <1>10 DEF Inv

-----------------------------------------------------------------------------
\* Every step keeps the invariant.
LEMMA NextInv == Inv /\ [Next]_vars => Inv'
<1> SUFFICES ASSUME Inv, [Next]_vars PROVE Inv'
  OBVIOUS
<1>1. CASE Application
  BY <1>1, StartKeeps, SelectKeeps, ApplicationKeeps DEF Application
<1>2. ASSUME NEW m \in Monitors, Proceed(m) \/ PollEnds(m) \/ SleepEnds(m) PROVE Inv'
  BY <1>2, MonitorKeeps, UpdateKeeps DEF Proceed
<1>3. CASE SrvProceed \/ SrvSleepEnds
  BY <1>3, SrvKeeps DEF SrvProceed
<1>4. CASE StopBegin \/ Stop
  BY <1>4, StopTurnsKeep, StopSignalKeeps, StopJoinKeeps DEF Stop
<1>5. CASE UNCHANGED vars
  BY <1>5 DEF vars, Inv, MonitorsSound, ThreadsSound, StopSound, ScanSound
<1> QED
  BY <1>1, <1>2, <1>3, <1>4, <1>5 DEF Next, Terminated

\* The invariant holds in every reachable state.
LEMMA SpecInv == Spec => []Inv
  BY InitInv, NextInv, PTL DEF Spec

(* For any number of servers, destroying the pool leaves no thread behind: *)
(* each monitor's thread has returned and is joined exactly once before    *)
(* mongoc_server_monitor_destroy, and no thread that reconciles frees a    *)
(* monitor that _mongoc_topology_background_monitoring_stop still holds.   *)
THEOREM StopLeavesNothing == Spec => []NothingLeftBehind
<1>1. Inv => NothingLeftBehind
  <2> SUFFICES ASSUME Inv PROVE NothingLeftBehind
    OBVIOUS
  <2>1. ASSUME NEW m \in Monitors
        PROVE  /\ mon[m].pc # "joined wrongly"
               /\ mon[m].state = "freed" => mon[m].pc = "joined"
               /\ stop.pc = "done" => mon[m].state \in {"none", "freed"}
    <3>1. Sound(mon[m])
      BY DEF Inv, MonitorsSound
    <3> QED
      BY <3>1 DEF Sound, MonitorRec, InLoop, Inv, StopSound, Exists
  <2>2. \A m \in stop.todo : mon[m].state # "freed"
    BY DEF Inv, StopSound, Exists
  <2> QED
    BY <2>1, <2>2 DEF NothingLeftBehind, Inv, StopSound
<1> QED
  BY <1>1, SpecInv, PTL

(* A monitor that mongoc_server_monitor_request_shutdown has told to stop  *)
(* neither sleeps nor waits for a reply without its cancellation pending.  *)
THEOREM ShutdownAlwaysSeen == Spec => []ShutdownIsSeen
<1>1. Inv => ShutdownIsSeen
  BY DEF Inv, MonitorsSound, Sound, ShutdownIsSeen
<1> QED
  BY <1>1, SpecInv, PTL

(* While a thread waits in mongoc_topology_select_server_id, no monitor    *)
(* sleeps through a heartbeat with its request to scan forgotten.          *)
THEOREM ScanNeverLost == Spec => []ScanNotLost
<1>1. Inv => ScanNotLost
  <2> SUFFICES ASSUME Inv, NEW s \in Selectors, sel[s] = "waiting",
                      NEW m \in Monitors, m[2] = "server", mon[m].pc = "sleep"
               PROVE  mon[m].due = "short" \/ mon[m].scan
    BY DEF ScanNotLost
  <2>1. mon[m].state = "running"
    BY DEF Inv, MonitorsSound, Sound, InLoop
  <2>2. Alert(mon[m])
    BY DEF Inv, ScanSound
  <2> QED
    BY <2>1, <2>2 DEF Alert
<1> QED
  BY <1>1, SpecInv, PTL
=============================================================================
