------------------------------ MODULE Selector ------------------------------
(***************************************************************************)
(* selector.c: the multiplexer that calls the handlers of every            *)
(* descriptor, the jobs the resolver threads leave for it and the signals  *)
(* that wake it up, in the loop of main().                                 *)
(*                                                                         *)
(* A handler is reduced to the calls it makes to the selector: the items   *)
(* it registers, unregisters and watches. An item's data is the connection *)
(* it belongs to, named by the descriptor of its client.                   *)
(***************************************************************************)
EXTENDS Integers, FiniteSets

CONSTANTS
  MaxFd,        \* bound: the highest descriptor the process may hold
  Passive,      \* the listening sockets
  MaxThreads    \* bound: resolver threads at a time

ASSUME SelectorAssumption ==
  /\ MaxFd \in Nat
  /\ MaxThreads \in Nat
  /\ \E p \in 0 .. MaxFd : Passive = 0 .. p   \* opened before any other

Fds  == 0 .. MaxFd
NoFd == -1

OP_READ  == "OP_READ"
OP_WRITE == "OP_WRITE"
Ops      == {OP_READ, OP_WRITE}

VARIABLES
  sel,          \* the struct fdselector
  pc,           \* where the main thread is
  slave,        \* slave_r and slave_w: what pselect() reported
  n,            \* the last descriptor handle_iteration visits
  pos,          \* ... and the next event it looks at
  owed,         \* events of the round whose handler is still to be called
  fresh,        \* origins registered since pselect() returned
  connecting,   \* origins in REQUEST_CONNECTING
  jobs,         \* resolution_jobs
  batch,        \* the jobs handle_block_notifications has yet to visit
  resolving,    \* clients whose resolver thread has not queued its answer
  signalling,   \* resolver threads that have, and are to send the signal
  pending,      \* the signal is pending for the main thread
  done          \* SIGTERM has been handled

roundVars    == <<slave, n, pos, owed, fresh>>
resolverVars == <<jobs, resolving, signalling, pending>>
vars == <<sel, pc, roundVars, connecting, resolverVars, batch, done>>

-----------------------------------------------------------------------------
(* struct fdselector and the functions on it. `used' are the items whose   *)
(* fd is not FD_UNUSED.                                                    *)

Selectors ==
  [used : SUBSET Fds, interest : [Fds -> SUBSET Ops], data : [Fds -> Fds \cup {NoFd}],
   max_fd : Fds, master : [Ops -> SUBSET Fds]]

(* Mutant: an interest that is gone stays in the set.                      *)
UpdateNeverClears(s, fd) ==
  [s EXCEPT !.master = [op \in Ops |-> IF op \in s.interest[fd] THEN s.master[op] \cup {fd}
                                                                ELSE s.master[op]]]

items_update_fdset_for_fd(s, fd) ==
  [s EXCEPT !.master = [op \in Ops |-> IF op \in s.interest[fd] THEN s.master[op] \cup {fd}
                                                                ELSE s.master[op] \ {fd}]]

(* The loop only looks at the items up to the maximum there was.           *)
items_max_fd(s) ==
  LET seen == {fd \in s.used : fd <= s.max_fd}
  IN  CHOOSE m \in seen \cup {0} : \A fd \in seen : fd <= m

selector_register(s, fd, ops, conn) ==
  items_update_fdset_for_fd(
    [s EXCEPT !.used = @ \cup {fd}, !.interest = [s.interest EXCEPT ![fd] = ops],
              !.data = [s.data EXCEPT ![fd] = conn],
              !.max_fd = IF fd > @ THEN fd ELSE @], fd)

selector_unregister_fd(s, fd) ==
  LET cleared == items_update_fdset_for_fd(
                   [s EXCEPT !.interest = [s.interest EXCEPT ![fd] = {}]], fd)
      unused  == [cleared EXCEPT !.used = @ \ {fd}, !.data = [s.data EXCEPT ![fd] = NoFd]]
  IN  [unused EXCEPT !.max_fd = items_max_fd(unused)]

selector_set_interest(s, fd, ops) ==
  items_update_fdset_for_fd([s EXCEPT !.interest = [s.interest EXCEPT ![fd] = ops]], fd)

(* The new selector once main() has registered its listening sockets.      *)
selector_new ==
  [used     |-> Passive,
   interest |-> [fd \in Fds |-> IF fd \in Passive THEN {OP_READ} ELSE {}],
   data     |-> [fd \in Fds |-> NoFd],
   max_fd   |-> CHOOSE p \in Passive : \A q \in Passive : q <= p,
   master   |-> [op \in Ops |-> IF op = OP_READ THEN Passive ELSE {}]]

Init ==
  /\ sel = selector_new
  /\ pc = "top"
  /\ slave = [op \in Ops |-> {}]
  /\ n = 0
  /\ pos = 0
  /\ owed = {}
  /\ fresh = {}
  /\ connecting = {}
  /\ jobs = {}
  /\ batch = {}
  /\ resolving = {}
  /\ signalling = 0
  /\ pending = FALSE
  /\ done = FALSE

-----------------------------------------------------------------------------
(* The handlers, by the calls they make. Each is called for an event on    *)
(* descriptor fd.                                                          *)

(* The descriptor accept() and socket() return: every open one is          *)
(* registered.                                                             *)
LowestFree(fd, s) == fd \in Fds \ s.used /\ \A f \in Fds \ s.used : fd <= f

client(fd)  == sel.data[fd]
origins(c)  == {f \in sel.used : sel.data[f] = c /\ f # c}
members(fd) == {client(fd)} \cup origins(client(fd))

(* socksv5_passive_accept and monitor_passive_accept, with what can go     *)
(* wrong in them.                                                          *)
Accept(fd) ==
  /\ fd \in Passive
  /\ \/ \E f \in Fds : LowestFree(f, sel) /\ sel' = selector_register(sel, f, {OP_READ}, f)
     \/ UNCHANGED sel
  /\ UNCHANGED <<fresh, connecting, resolving>>

(* A handler that waits for the client's next message or for room for a    *)
(* reply to it.                                                            *)
Converse(fd) ==
  /\ members(fd) = {fd}
  /\ \E op \in Ops : sel' = selector_set_interest(sel, fd, {op})
  /\ UNCHANGED <<fresh, connecting, resolving>>

(* request_process for a name: a thread resolves it.                       *)
Resolve(fd) ==
  /\ members(fd) = {fd}
  /\ OP_READ \in sel.interest[fd]
  /\ Cardinality(resolving) + signalling < MaxThreads
  /\ sel' = selector_set_interest(sel, fd, {})
  /\ resolving' = resolving \cup {fd}
  /\ UNCHANGED <<fresh, connecting>>

(* request_connect: the client's interest goes and the origin's socket is  *)
(* registered.                                                             *)
Connect(fd) ==
  /\ members(fd) = {fd}
  /\ OP_WRITE \notin sel.interest[fd]
  /\ \E f \in Fds :
       /\ LowestFree(f, sel)
       /\ sel' = selector_register(selector_set_interest(sel, fd, {}), f, {OP_WRITE}, fd)
       /\ fresh' = fresh \cup {f}
       /\ connecting' = connecting \cup {f}
  /\ UNCHANGED resolving

(* request_connecting, when it answers the client ...                      *)
Connected(fd) ==
  /\ fd \in connecting
  /\ sel' = selector_set_interest(selector_set_interest(sel, client(fd), {OP_WRITE}), fd, {})
  /\ connecting' = connecting \ {fd}
  /\ UNCHANGED <<fresh, resolving>>

(* ... and when it tries another address of the name. (That this attempt   *)
(* may fail at once is left to Socks5, where it is the fault "retry".)     *)
ConnectAgain(fd) ==
  /\ fd \in connecting
  /\ LET closed == selector_unregister_fd(sel, fd)
     IN  \E f \in Fds :
           /\ LowestFree(f, closed)
           /\ sel' = selector_register(selector_set_interest(closed, client(fd), {}),
                                       f, {OP_WRITE}, client(fd))
           /\ fresh' = fresh \cup {f}
           /\ connecting' = (connecting \ {fd}) \cup {f}
  /\ UNCHANGED resolving

(* request_write that succeeded, copy_r and copy_w.                        *)
Copy(fd) ==
  /\ fd \notin connecting
  /\ origins(client(fd)) # {}
  /\ \E c, o \in SUBSET Ops :
       /\ c \cup o # {}
       /\ sel' = selector_set_interest(selector_set_interest(sel, client(fd), c),
                                       CHOOSE f \in origins(client(fd)) : TRUE, o)
  /\ UNCHANGED <<fresh, connecting, resolving>>

(* socksv5_done: the client and then the origin.                           *)
Done(fd) ==
  /\ fd \notin connecting \cup Passive
  /\ LET closed == selector_unregister_fd(sel, client(fd))
     IN  sel' = IF origins(client(fd)) = {} THEN closed
                ELSE selector_unregister_fd(closed, CHOOSE f \in origins(client(fd)) : TRUE)
  /\ UNCHANGED <<fresh, connecting, resolving>>

Handler(fd) ==
  \/ Accept(fd)
  \/ /\ fd \notin Passive
     /\ \/ Converse(fd) \/ Resolve(fd) \/ Connect(fd) \/ Connected(fd) \/ ConnectAgain(fd)
        \/ Copy(fd) \/ Done(fd)

-----------------------------------------------------------------------------
(* selector_select in the loop of main().                                  *)

(* while (!done)                                                           *)
LoopTest ==
  /\ pc = "top"
  /\ pc' = IF done THEN "stopped" ELSE "select"
  /\ UNCHANGED <<sel, roundVars, connecting, resolverVars, batch, done>>

(* handle_block_notifications takes the mutex.                             *)
StartNotifications ==
  /\ pc' = "notify"
  /\ batch' = jobs

(* Mutant: an item too many is visited.                                    *)
LastVisitedBeyond(s) == s.max_fd + 1

(* handle_iteration takes the maximum at its start.                        *)
LastVisited(s) == s.max_fd

(* pselect() reports some of the descriptors it was given, all below       *)
(* max_fd + 1. The signal may be handled meanwhile or stay pending.        *)
PselectReady ==
  /\ pc = "select"
  /\ \E ready \in [Ops -> SUBSET (0 .. sel.max_fd)] :
       /\ \A op \in Ops : ready[op] \subseteq sel.master[op]
       /\ \E op \in Ops : ready[op] # {}
       /\ slave' = ready
       /\ owed' = {ev \in [fd : Fds, op : Ops] : ev.fd \in ready[ev.op]}
  /\ pc' = "iterate"
  /\ n' = LastVisited(sel)
  /\ pos' = 0
  /\ fresh' = {}
  /\ pending' \in {pending, FALSE}
  /\ UNCHANGED <<sel, connecting, jobs, resolving, signalling, batch, done>>

(* Mutant: pselect() is given no timeout.                                  *)
NoTimeout == FALSE

(* The ten seconds have passed: handle_iteration finds nothing to do.      *)
PselectTimeout ==
  /\ pc = "select"
  /\ StartNotifications
  /\ fresh' = {}
  /\ UNCHANGED <<sel, slave, n, pos, owed, connecting, resolverVars, done>>

(* selector_init blocks the signal, and only pselect() is given the empty  *)
(* mask. Its handler does nothing.                                         *)
wake_handler == pc = "select" /\ pending

(* EINTR: the signal has been handled.                                     *)
PselectInterrupted ==
  /\ wake_handler
  /\ pending' = FALSE
  /\ StartNotifications
  /\ fresh' = {}
  /\ UNCHANGED <<sel, slave, n, pos, owed, connecting, jobs, resolving, signalling, done>>

(* handle_iteration looks at the events of each descriptor up to n, its    *)
(* reads first. Event 2 * fd is to read from fd, 2 * fd + 1 to write to it.*)
EventFd(p) == p \div 2
EventOp(p) == IF p % 2 = 0 THEN OP_READ ELSE OP_WRITE

(* Mutant: the descriptor n is not visited.                                *)
DueShort(p) ==
  /\ EventFd(p) < n
  /\ EventFd(p) \in sel.used
  /\ EventFd(p) \in slave[EventOp(p)]
  /\ EventOp(p) \in sel.interest[EventFd(p)]

Due(p) ==
  /\ EventFd(p) <= n
  /\ EventFd(p) \in sel.used
  /\ EventFd(p) \in slave[EventOp(p)]
  /\ EventOp(p) \in sel.interest[EventFd(p)]

Events == 0 .. 2 * MaxFd + 1

(* The next event whose handler is called.                                 *)
Dispatch(p) ==
  /\ pc = "iterate"
  /\ pos <= p /\ Due(p)
  /\ \A q \in Events : pos <= q /\ q < p => ~Due(q)
  /\ Handler(EventFd(p))
  /\ pos' = p + 1
  /\ owed' = {ev \in owed : /\ ev # [fd |-> EventFd(p), op |-> EventOp(p)]
                            /\ ev.fd \in sel'.used
                            /\ ev.op \in sel'.interest[ev.fd]}
  /\ UNCHANGED <<pc, slave, n, jobs, signalling, pending, batch, done>>

(* The loop is over. What pselect() reported is of no further use.         *)
IterationEnds ==
  /\ pc = "iterate"
  /\ \A p \in Events : pos <= p => ~Due(p)
  /\ StartNotifications
  /\ slave' = [op \in Ops |-> {}]
  /\ n' = 0
  /\ pos' = 0
  /\ UNCHANGED <<sel, owed, fresh, connecting, resolverVars, done>>

(* handle_block_notifications: request_resolv_done for each job ...        *)
handle_block(fd) ==
  /\ pc = "notify"
  /\ fd \in batch
  /\ batch' = batch \ {fd}
  /\ IF fd \in sel.used
     THEN Connect(fd) \/ Converse(fd)
     ELSE UNCHANGED <<sel, fresh, connecting, resolving>>
  /\ UNCHANGED <<pc, slave, n, pos, owed, jobs, signalling, pending, done>>

(* ... and then the queue is emptied and the mutex released.               *)
NotificationsEnd ==
  /\ pc = "notify"
  /\ batch = {}
  /\ jobs' = {}
  /\ pc' = "top"
  /\ UNCHANGED <<sel, roundVars, connecting, resolving, signalling, pending, batch, done>>

-----------------------------------------------------------------------------
(* The resolver threads and the signals.                                   *)

(* Mutant: the queue is not protected by the mutex.                        *)
EnqueueUnlocked(fd) ==
  /\ pc # "stopped"
  /\ fd \in resolving
  /\ resolving' = resolving \ {fd}
  /\ jobs' = jobs \cup {fd}
  /\ signalling' = signalling + 1
  /\ UNCHANGED <<sel, pc, roundVars, connecting, batch, pending, done>>

(* selector_notify_block queues the answer under the mutex ...             *)
Enqueue(fd) ==
  /\ pc \notin {"notify", "stopped"}
  /\ fd \in resolving
  /\ resolving' = resolving \ {fd}
  /\ jobs' = jobs \cup {fd}
  /\ signalling' = signalling + 1
  /\ UNCHANGED <<sel, pc, roundVars, connecting, batch, pending, done>>

(* Mutant: the signal is lost when the main thread has it blocked.         *)
SignalLost ==
  /\ pc # "stopped"
  /\ signalling > 0
  /\ signalling' = signalling - 1
  /\ pending' = (pending \/ pc = "select")
  /\ UNCHANGED <<sel, pc, roundVars, connecting, jobs, resolving, batch, done>>

(* ... and then sends the signal, which is blocked outside pselect().      *)
Signal ==
  /\ pc # "stopped"
  /\ signalling > 0
  /\ signalling' = signalling - 1
  /\ pending' = TRUE
  /\ UNCHANGED <<sel, pc, roundVars, connecting, jobs, resolving, batch, done>>

(* SIGTERM is not blocked. It interrupts pselect(), unless it comes        *)
(* between the test of the loop and pselect().                             *)
sigterm_handler ==
  /\ pc # "stopped"
  /\ ~done
  /\ done' = TRUE
  /\ \/ UNCHANGED <<pc, batch, fresh>>
     \/ pc = "select" /\ StartNotifications /\ fresh' = {}
  /\ UNCHANGED <<sel, slave, n, pos, owed, connecting, resolverVars>>

(* The teardown is in Socks5.                                              *)
Stopped ==
  /\ pc = "stopped"
  /\ UNCHANGED vars

(* What the main thread does by itself: all but the events of descriptors. *)
MainStep ==
  \/ LoopTest
  \/ PselectTimeout \/ PselectInterrupted
  \/ (\E p \in Events : Dispatch(p)) \/ IterationEnds
  \/ (\E fd \in Fds : handle_block(fd)) \/ NotificationsEnd

Next ==
  \/ MainStep
  \/ PselectReady
  \/ \E fd \in Fds : Enqueue(fd)
  \/ Signal
  \/ sigterm_handler
  \/ Stopped

Spec == Init /\ [][Next]_vars

(* The main thread only waits in pselect(), for ten seconds at most, and   *)
(* holds the mutex only while it visits the jobs: a thread that waits for  *)
(* the mutex gets it at last. getaddrinfo() gives up sooner or later.      *)
Fairness ==
  /\ WF_vars(MainStep)
  /\ \A fd \in Fds : SF_vars(Enqueue(fd))
  /\ WF_vars(Signal)

FairSpec == Spec /\ Fairness

-----------------------------------------------------------------------------
(* Properties.                                                             *)

TypeOK ==
  /\ sel \in Selectors
  /\ pc \in {"top", "select", "iterate", "notify", "stopped"}
  /\ slave \in [Ops -> SUBSET Fds]
  /\ n \in Fds
  /\ pos \in 0 .. 2 * MaxFd + 2
  /\ owed \in SUBSET [fd : Fds, op : Ops]
  /\ fresh \in SUBSET Fds
  /\ connecting \in SUBSET Fds
  /\ jobs \in SUBSET Fds
  /\ batch \in SUBSET Fds
  /\ resolving \in SUBSET Fds
  /\ signalling \in 0 .. MaxThreads
  /\ pending \in BOOLEAN
  /\ done \in BOOLEAN

(* What pselect() will be given is what the items ask for: every used item *)
(* is below max_fd + 1, which is no larger than it must be, and is in the  *)
(* sets of exactly its interests; an unused one is in none, or pselect()   *)
(* would meet a closed descriptor and end the server.                      *)
MasterExact ==
  /\ \A op \in Ops : sel.master[op] = {fd \in sel.used : op \in sel.interest[fd]}
  /\ \A fd \in sel.used : fd <= sel.max_fd
  /\ sel.max_fd = 0 \/ sel.max_fd \in sel.used

(* A round of handle_iteration serves every event pselect() reported whose *)
(* item stays registered and interested, whatever the handlers called      *)
(* before it in the round register, unregister or watch.                   *)
ServedInRound == pc = "notify" => owed = {}

(* The main thread never sleeps on a queued job without a wake-up: the     *)
(* signal is pending or a thread is about to send it.                      *)
WakeUpPending == pc \in {"top", "select"} /\ jobs # {} => pending \/ signalling > 0

(* Clients in REQUEST_RESOLV.                                              *)
Waiting(fd) == fd \in sel.used \ Passive /\ members(fd) = {fd} /\ sel.interest[fd] = {}

(* A client waits for one answer, which is on its way: its thread is at    *)
(* work or its job queued, never both, and nobody else has one.            *)
OneAnswer ==
  pc # "stopped" => \A fd \in Fds :
    LET queued == fd \in IF pc = "notify" THEN batch ELSE jobs
    IN  /\ Waiting(fd) <=> fd \in resolving \/ queued
        /\ ~(fd \in resolving /\ queued)

(* The answer to a name reaches its client, although the threads only      *)
(* queue it and send a signal.                                             *)
JobServed == \A fd \in Fds : Waiting(fd) ~> (~Waiting(fd) \/ pc = "stopped")

(* SIGTERM ends the loop of main(), even when it comes between the test of *)
(* the loop and pselect(), where nothing else may ever happen.             *)
LoopEnds == done ~> pc = "stopped"

(* The comment of request_connecting: the connection has been established  *)
(* or has failed. It is only called for an origin that pselect() has       *)
(* reported since its socket was registered.                               *)
ConnectionSettled ==
  [][\A fd \in connecting \ connecting' : fd \notin fresh]_vars
=============================================================================
