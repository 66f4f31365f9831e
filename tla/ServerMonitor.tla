---------------------------- MODULE ServerMonitor ----------------------------
(***************************************************************************)
(* The monitor threads of a pooled topology of the vendored C driver: how  *)
(* they are started, asked to scan, cancelled, retired with their server   *)
(* and stopped with the pool (mongoc-server-monitor.c and                  *)
(* mongoc-topology-background-monitoring.c), and the threads that wait in  *)
(* server selection for what they find.  What a reply does to the          *)
(* description is the subject of TopologyDescription; here it lists some   *)
(* servers and knows some of them.                                         *)
(*                                                                         *)
(* What runs under tpld_modification_mtx is one step: it waits only for    *)
(* threads that have left their loop.  So is a critical section of a       *)
(* monitor's own mutex.                                                    *)
(*                                                                         *)
(* An operator whose name starts with Mutant is a broken variant of the    *)
(* definition that follows it; no specification uses it.                   *)
(***************************************************************************)
EXTENDS Integers, FiniteSets

CONSTANTS
  MaxId,      \* bound on the server ids given out
  Streaming,  \* the servers that send a topologyVersion
  Selectors   \* application threads that select a server

ASSUME MonitorAssumption ==
  /\ MaxId \in Nat \ {0}
  /\ Streaming \subseteq 1..MaxId

VARIABLES
  scanner,    \* scanner_state
  listed,     \* the servers of the description
  known,      \* those whose type is known
  versioned,  \* the servers whose topologyVersion was seen
  maxId,      \* the largest id given out
  mon,        \* the monitors of server_monitors and of rtt_monitors
  sel,        \* the application threads
  srv,        \* the SRV polling thread, "returned" also if there is none
  stop        \* the thread that destroys the pool, and the monitors it counted

description == <<listed, known, versioned, maxId>>
vars == <<scanner, description, mon, sel, srv, stop>>

Ids == 1..MaxId
Monitors == Ids \X {"server", "rtt"}

(* state is shared.state, "none" before and "freed" after the monitor's    *)
(* life; tv: the last reply had a topologyVersion; due: how long the       *)
(* monitor means to sleep.                                                 *)
NoMonitor == [state |-> "none", pc |-> "none", scan |-> FALSE, cancel |-> FALSE,
              tv |-> FALSE, due |-> "long"]

NewMonitor == [NoMonitor EXCEPT !.state = "running", !.pc = "top"]

Init ==
  /\ scanner = "off"
  /\ listed = {1} /\ known = {} /\ versioned = {} /\ maxId = 1
  /\ mon = [m \in Monitors |-> NoMonitor]
  /\ sel = [s \in Selectors |-> "idle"]
  /\ srv = "returned"
  /\ stop = [pc |-> "none", todo |-> {}]

-----------------------------------------------------------------------------
(* mongoc_cond_signal on the monitor's condition variable.                 *)
Signal(r) == IF r.pc = "sleep" THEN [r EXCEPT !.pc = "wait"] ELSE r

RequestScan(r) == Signal([r EXCEPT !.scan = TRUE])
RequestCancel(r) == Signal([r EXCEPT !.cancel = TRUE])

Join(r) == [r EXCEPT !.pc = IF @ = "returned" THEN "joined" ELSE "joined wrongly"]

MutantRequestShutdown(r) ==
  CASE r.state = "running" -> Signal([r EXCEPT !.state = "shutting_down"])
    [] r.state = "joinable" -> [Join(r) EXCEPT !.state = "off"]
    [] OTHER -> r

(* mongoc_server_monitor_request_shutdown.  It never waits for a thread    *)
(* that is still in its loop: that may be the caller.                      *)
RequestShutdown(r) ==
  CASE r.state = "running" -> RequestCancel([r EXCEPT !.state = "shutting_down"])
    [] r.state = "joinable" -> [Join(r) EXCEPT !.state = "off"]
    [] r.state = "shutting_down" -> RequestCancel(r)
    [] OTHER -> r

Exists(r) == r.state \notin {"none", "freed"}

Needed(m) == m[1] \in listed' /\ (m[2] = "rtt" => m[1] \in versioned')

\* A monitor of a server that is gone: destroyed once it is off.
Retire(r) ==
  LET s == RequestShutdown(r)
  IN  IF s.state = "off" THEN [s EXCEPT !.state = "freed"] ELSE s

MutantReconcile(ms) == mon' = ms

(* _mongoc_topology_background_monitoring_reconcile, for the monitors ms   *)
(* and the description that is about to be published.                      *)
Reconcile(ms) ==
  mon' = IF scanner # "running" THEN ms
         ELSE [m \in Monitors |->
                CASE Needed(m) /\ ~Exists(ms[m]) -> NewMonitor
                  [] m[1] \notin listed' /\ Exists(ms[m]) -> Retire(ms[m])
                  [] OTHER -> ms[m]]

\* mongoc_cond_broadcast (cond_client)
Broadcast == sel' = [s \in Selectors |-> IF sel[s] = "waiting" THEN "select" ELSE sel[s]]

(* What a reply, an error or a handshake of server id does to the          *)
(* description: servers go, new ones come under new ids.                   *)
Describe(id, ok) ==
  \/ /\ id \in listed /\ ok
     /\ \E gone \in SUBSET listed, new \in 0..(MaxId - maxId) :
          /\ maxId' = maxId + new
          /\ listed' = (listed \ gone) \cup (maxId + 1)..maxId'
          /\ known' = (known \cup {id}) \ gone
     /\ versioned' = versioned \cup ({id} \cap Streaming)
  \/ /\ id \in listed /\ ~ok
     /\ known' = known \ {id}
     /\ UNCHANGED <<listed, versioned, maxId>>
  \/ id \notin listed /\ UNCHANGED description

-----------------------------------------------------------------------------
(* A monitor thread.  That of a round trip time monitor makes an exchange  *)
(* and sleeps; whether it looks at the state before or after the exchange  *)
(* makes no difference.                                                    *)

Goto(m, pc) == mon' = [mon EXCEPT ![m].pc = pc]

(* The top of the loop, and the check: _server_monitor_check_server waits  *)
(* for an awaitable hello, or makes an exchange that ends within its       *)
(* timeouts.  A monitor that is told to stop leaves the loop for good.     *)
Top(m) ==
  /\ mon[m].pc = "top"
  /\ mon' = [mon EXCEPT ![m] =
       IF @.state # "running"
         THEN [NoMonitor EXCEPT !.pc = "returned", !.state = "joinable"]
       ELSE IF m[2] = "rtt" THEN [@ EXCEPT !.pc = "sleep"]
       ELSE [@ EXCEPT !.pc = IF mon[m].tv THEN "poll" ELSE "update"]]
  /\ UNCHANGED <<scanner, description, sel, srv, stop>>

\* A tick of _server_monitor_poll_with_interrupt.
PollCancelled(m) ==
  /\ mon[m].pc = "poll" /\ mon[m].cancel
  /\ mon' = [mon EXCEPT ![m].pc = "wait", ![m].cancel = FALSE, ![m].tv = FALSE]
  /\ UNCHANGED <<scanner, description, sel, srv, stop>>

\* A reply, which is looked at after cancel_requested, or an error.
PollEnds(m) ==
  /\ mon[m].pc = "poll"
  /\ Goto(m, "update")
  /\ UNCHANGED <<scanner, description, sel, srv, stop>>

(* _update_topology_description does nothing once the pool is shutting     *)
(* down; what comes next depends on the reply all the same.                *)
UpdateSkipped(m) ==
  /\ mon[m].pc = "update" /\ scanner = "shutting_down"
  /\ \E ok \in BOOLEAN, pc \in {"top", "wait"} :
       /\ (ok => pc = IF m[1] \in Streaming THEN "top" ELSE "wait")
       /\ mon' = [mon EXCEPT ![m].pc = pc, ![m].due = "long",
                             ![m].tv = ok /\ m[1] \in Streaming]
  /\ UNCHANGED <<scanner, description, sel, srv, stop>>

MutantUpdate(m) ==
  /\ mon[m].pc = "update"
  /\ \E ok \in BOOLEAN, pc \in {"top", "wait"} :
       /\ (ok => pc = IF m[1] \in Streaming THEN "top" ELSE "wait")
       /\ Describe(m[1], ok)
       /\ Reconcile([mon EXCEPT ![m] =
            [@ EXCEPT !.pc = pc, !.scan = FALSE, !.due = "long",
                      !.tv = ok /\ m[1] \in Streaming]])
  /\ UNCHANGED <<scanner, sel, srv, stop>>

(* The shutdown may also come after it looked and while it waits for the   *)
(* lock.  A reply with a topologyVersion, or the first network error, is   *)
(* followed by the next check at once.                                     *)
Update(m) ==
  /\ mon[m].pc = "update"
  /\ \E ok \in BOOLEAN, pc \in {"top", "wait"} :
       /\ (ok => pc = IF m[1] \in Streaming THEN "top" ELSE "wait")
       /\ Describe(m[1], ok)
       /\ Reconcile([mon EXCEPT ![m] =
            [@ EXCEPT !.pc = pc, !.scan = FALSE, !.due = "long",
                      !.tv = ok /\ m[1] \in Streaming]])
  /\ Broadcast
  /\ UNCHANGED <<scanner, srv, stop>>

\* mongoc_server_monitor_wait, up to the timed wait
Wait(m) ==
  /\ mon[m].pc = "wait"
  /\ mon' = [mon EXCEPT ![m] =
       IF @.state # "running" THEN [@ EXCEPT !.pc = "top"]
       ELSE [@ EXCEPT !.pc = "sleep", !.scan = FALSE,
                      !.due = IF mon[m].scan THEN "short" ELSE mon[m].due]]
  /\ UNCHANGED <<scanner, description, sel, srv, stop>>

SleepEnds(m) ==
  /\ mon[m].pc = "sleep"
  /\ mon' = [mon EXCEPT ![m].pc = "top", ![m].due = "long"]
  /\ UNCHANGED <<scanner, description, sel, srv, stop>>

-----------------------------------------------------------------------------
(* The application.  A client is taken from the pool before anything else, *)
(* and the pool is destroyed when all are back.                            *)

Running == scanner = "running" /\ stop.pc = "none"

\* _mongoc_topology_background_monitoring_start, under the pool's mutex
Start ==
  /\ scanner = "off" /\ stop.pc = "none"
  /\ scanner' = "running"
  /\ UNCHANGED description
  /\ mon' = [mon EXCEPT ![<<1, "server">>] = NewMonitor]
  /\ srv' \in {"returned", "loop"}
  /\ UNCHANGED <<sel, stop>>

RequestScans ==
  mon' = [m \in Monitors |-> IF m[2] = "server" /\ mon[m].state = "running"
                               THEN RequestScan(mon[m]) ELSE mon[m]]

BeginSelect(s) ==
  /\ Running /\ sel[s] = "idle"
  /\ sel' = [sel EXCEPT ![s] = "select"]
  /\ UNCHANGED <<scanner, description, mon, srv, stop>>

\* The loop of mongoc_topology_select_server_id: a server, or a wait.
Select(s) ==
  /\ sel[s] = "select"
  /\ \/ /\ known # {}
        /\ sel' = [sel EXCEPT ![s] = "idle"]
        /\ UNCHANGED mon
     \/ /\ known = {}
        /\ sel' = [sel EXCEPT ![s] = "waiting"]
        /\ RequestScans
  /\ UNCHANGED <<scanner, description, srv, stop>>

SelectTimeout(s) ==
  /\ sel[s] = "waiting"
  /\ sel' = [sel EXCEPT ![s] = "idle"]
  /\ UNCHANGED <<scanner, description, mon, srv, stop>>

\* _mongoc_topology_update_from_handshake, for a server selected some time ago
Handshake(id) ==
  /\ Running
  /\ id <= maxId
  /\ Describe(id, TRUE)
  /\ Broadcast
  /\ Reconcile(mon)
  /\ UNCHANGED <<scanner, srv, stop>>

\* _mongoc_topology_handle_app_error: of the network ...
NetworkError(id) ==
  /\ Running /\ id \in listed
  /\ Describe(id, FALSE)
  /\ mon' = [mon EXCEPT ![<<id, "server">>] =
                          IF @.state = "running" THEN RequestCancel(@) ELSE @]
  /\ UNCHANGED <<scanner, sel, srv, stop>>

\* ... or of a server that is not the primary.
CommandError(id) ==
  /\ Running /\ id \in listed
  /\ Describe(id, FALSE)
  /\ RequestScans
  /\ UNCHANGED <<scanner, sel, srv, stop>>

-----------------------------------------------------------------------------
(* srv_polling_run.                                                        *)

SrvEnds ==
  /\ srv = "loop"
  /\ srv' = "returned"   \* shutting down, or the type is no longer eligible
  /\ UNCHANGED <<scanner, description, mon, sel, stop>>

SrvLook ==
  /\ srv = "loop" /\ scanner = "running"
  /\ srv' = "query"
  /\ UNCHANGED <<scanner, description, mon, sel, stop>>

(* The servers change, in a pool that may be shutting down by now, but no  *)
(* monitor is started or stopped for it.                                   *)
SrvScan ==
  /\ srv = "query"
  /\ \/ UNCHANGED description
     \/ \E gone \in SUBSET listed, new \in 0..(MaxId - maxId) :
          /\ maxId' = maxId + new
          /\ listed' = (listed \ gone) \cup (maxId + 1)..maxId'
          /\ listed' # {}
          /\ known' = known \ gone
          /\ UNCHANGED versioned
  /\ srv' = "wait"
  /\ UNCHANGED <<scanner, mon, sel, stop>>

MutantSrvWait ==
  /\ srv = "wait"
  /\ srv' = "sleep"
  /\ UNCHANGED <<scanner, description, mon, sel, stop>>

\* It looks at scanner_state again with the mutex it then waits with.
SrvWait ==
  /\ srv = "wait"
  /\ srv' = IF scanner = "running" THEN "sleep" ELSE "returned"
  /\ UNCHANGED <<scanner, description, mon, sel, stop>>

SrvSleepEnds ==
  /\ srv = "sleep"
  /\ srv' = "loop"
  /\ UNCHANGED <<scanner, description, mon, sel, stop>>

-----------------------------------------------------------------------------
(* _mongoc_topology_background_monitoring_stop.                            *)

\* The order in which the sets are walked.
First(ms) == CHOOSE m \in ms : \A n \in ms :
  IF m[2] = n[2] THEN m[1] <= n[1] ELSE m[2] = "server"

InSets == {m \in Monitors : Exists(mon[m])}

StopBegin ==
  /\ stop.pc = "none" /\ scanner = "running"
  /\ \A s \in Selectors : sel[s] = "idle"
  /\ stop' = [pc |-> "announce", todo |-> {}]
  /\ UNCHANGED <<scanner, description, mon, sel, srv>>

MutantStopAnnounce ==
  /\ stop.pc = "announce"
  /\ srv' = IF srv = "sleep" THEN "loop" ELSE srv
  /\ stop' = [stop EXCEPT !.pc = "count"]
  /\ UNCHANGED <<scanner, description, mon, sel>>

StopAnnounce ==
  /\ stop.pc = "announce"
  /\ scanner' = "shutting_down"
  /\ srv' = IF srv = "sleep" THEN "loop" ELSE srv
  /\ stop' = [stop EXCEPT !.pc = "count"]
  /\ UNCHANGED <<description, mon, sel>>

\* Under the lock: whoever reconciles later finds the scanner shutting down.
StopCount ==
  /\ stop.pc = "count"
  /\ stop' = [pc |-> "signal", todo |-> InSets]
  /\ UNCHANGED <<scanner, description, mon, sel, srv>>

\* Without the lock: all are asked to stop, one by one,
StopSignal ==
  /\ stop.pc = "signal" /\ stop.todo # {}
  /\ mon' = [mon EXCEPT ![First(stop.todo)] = RequestShutdown(@)]
  /\ stop' = [stop EXCEPT !.todo = @ \ {First(@)}]
  /\ UNCHANGED <<scanner, description, sel, srv>>

StopSignalled ==
  /\ stop.pc = "signal" /\ stop.todo = {}
  /\ stop' = [pc |-> "join", todo |-> InSets]
  /\ UNCHANGED <<scanner, description, mon, sel, srv>>

\* then each is waited for and destroyed.
StopJoin ==
  /\ stop.pc = "join" /\ stop.todo # {}
  /\ LET m == First(stop.todo)
     IN  /\ mon[m].state = "off" \/ mon[m].pc = "returned"
         /\ mon' = [mon EXCEPT ![m] =
              [(IF @.state = "off" THEN @ ELSE Join(@)) EXCEPT !.state = "freed"]]
         /\ stop' = [stop EXCEPT !.todo = @ \ {m}]
  /\ UNCHANGED <<scanner, description, sel, srv>>

StopDone ==
  /\ stop.pc = "join" /\ stop.todo = {}
  /\ srv = "returned"
  /\ scanner' = "off"
  /\ Broadcast
  /\ stop' = [stop EXCEPT !.pc = "done"]
  /\ UNCHANGED <<description, mon, srv>>

Terminated == stop.pc = "done" /\ UNCHANGED vars

-----------------------------------------------------------------------------
\* Steps that need no timer, reply or signal.
Proceed(m) ==
  \/ Top(m) \/ PollCancelled(m) \/ UpdateSkipped(m)
  \/ Update(m) \/ Wait(m)

SrvProceed == SrvLook \/ SrvScan \/ SrvEnds \/ SrvWait

Application ==
  \/ Start
  \/ \E s \in Selectors : BeginSelect(s) \/ Select(s) \/ SelectTimeout(s)
  \/ \E id \in Ids : Handshake(id) \/ NetworkError(id) \/ CommandError(id)

Stop ==
  \/ StopAnnounce \/ StopCount \/ StopSignal \/ StopSignalled \/ StopJoin
  \/ StopDone

Next ==
  \/ Application
  \/ \E m \in Monitors : Proceed(m) \/ PollEnds(m) \/ SleepEnds(m)
  \/ SrvProceed \/ SrvSleepEnds
  \/ StopBegin \/ Stop
  \/ Terminated

Spec == Init /\ [][Next]_vars

(* Fairness: every thread that can run does, exchanges end within their    *)
(* timeouts.  Sleeps and awaited replies need not end by themselves: the   *)
(* signals have to end them.  This is weak fairness of Proceed(m), of      *)
(* SrvProceed and of Stop, written with the variables only they change for *)
(* ever.                                                                   *)
Busy(m) ==
  \/ mon[m].pc \in {"top", "update", "wait"}
  \/ mon[m].pc = "poll" /\ mon[m].cancel

StopBusy ==
  \/ stop.pc \in {"announce", "count", "signal"}
  \/ stop.pc = "join" /\
       IF stop.todo = {} THEN srv = "returned"
       ELSE mon[First(stop.todo)].state = "off" \/ mon[First(stop.todo)].pc = "returned"

FairSpec ==
  /\ Spec
  /\ \A m \in Monitors : []<>~Busy(m) \/ []<><<TRUE>>_(mon[m].pc)
  /\ []<>(srv \notin {"loop", "query", "wait"}) \/ []<><<TRUE>>_srv
  /\ []<>~StopBusy

-----------------------------------------------------------------------------
(* Stop leaves nothing behind: each thread has returned and was joined     *)
(* exactly once before its monitor was freed, and a monitor that stop is   *)
(* going to use is not freed by a thread that reconciles meanwhile.        *)
NothingLeftBehind ==
  /\ \A m \in Monitors :
       /\ mon[m].pc # "joined wrongly"
       /\ mon[m].state = "freed" => mon[m].pc = "joined"
       /\ stop.pc = "done" => mon[m].state \in {"none", "freed"}
  /\ \A m \in stop.todo : mon[m].state # "freed"
  /\ stop.pc = "done" => srv = "returned"

(* A monitor that is told to stop is not asleep, and the wait for a reply  *)
(* it may be in ends at the next tick.                                     *)
ShutdownIsSeen ==
  \A m \in Monitors : mon[m].state = "shutting_down" =>
    mon[m].pc # "sleep" /\ (mon[m].pc = "poll" => mon[m].cancel)

(* While a thread waits for a server, no monitor sleeps for a whole        *)
(* heartbeat: the request to scan that a monitor drops when it applies an  *)
(* older reply is made again by the thread that this reply wakes up.       *)
(* A check that is cancelled drops none, so the sleep after it is short.   *)
ScanNotLost ==
  \A s \in Selectors : sel[s] = "waiting" =>
    \A m \in Monitors : m[2] = "server" /\ mon[m].pc = "sleep" =>
      mon[m].due = "short" \/ mon[m].scan

(* The destruction of a pool ends, whatever the monitors are doing: no     *)
(* thread waits for itself, and none sleeps on.                            *)
StopEnds == stop.pc = "announce" ~> stop.pc = "done"

Monitored(id) == mon[<<id, "server">>].state = "running"
Settled(id) == scanner # "running" \/ id \notin listed \/ Monitored(id)

\* Timers and replies end the sleeps.
SleepsEnd ==
  /\ \A m \in Monitors : []<>(mon[m].pc \notin {"poll", "wait", "sleep"})
  /\ []<>(srv # "sleep")

(* If sleeps end, a server that is listed comes to be monitored, one found *)
(* by the SRV poll too although the poll starts no monitor for it: the     *)
(* next thread that reconciles does, as long as there is one.              *)
ListedIsMonitored ==
  SleepsEnd => \A id \in Ids :
    ~Settled(id) ~> (Settled(id) \/ \A i \in Ids : ~Monitored(i))
=============================================================================
