------------------------------- MODULE Socks5 -------------------------------
(***************************************************************************)
(* The proxy of socks5nio.c: every SOCKSv5 connection from accept() until  *)
(* both its sockets are closed, with what the connections share: the       *)
(* descriptors, the items of the selector, the reference-counted           *)
(* `struct socks5' and their pool, the resolver threads, the users and the *)
(* statistics; and the end of main() after a SIGTERM.                      *)
(*                                                                         *)
(* A handler that returns to its own state having read or sent part of a   *)
(* message leaves all of this as it was, and so is no step. The bytes of   *)
(* the COPY state are counted in Relay.                                    *)
(***************************************************************************)
EXTENDS Copy, FiniteSets

CONSTANTS
  Fds,          \* bound: descriptors the process may hold for connections
  Structs,      \* bound: addresses malloc() may return for a struct socks5
  NoStruct,     \* the data of an unused item of the selector
  MaxPool,      \* max_pool
  MaxAddrs,     \* bound: addresses a name resolves to
  MaxUsers,     \* MAX_USERS
  CounterMod,   \* the statistics are modulo this (2^32)
  Faults        \* which of the failures below may happen

(* "retry": connect() to a further address of a name fails at once;        *)
(* "thread": pthread_create() fails; "notify": selector_notify_block()     *)
(* finds no memory for the job.                                            *)
ASSUME Socks5Assumption ==
  /\ Fds \subseteq Nat
  /\ NoStruct \notin Structs
  /\ MaxPool \in Nat
  /\ MaxAddrs \in Nat \ {0}
  /\ MaxUsers \in Nat
  /\ CounterMod \in Nat \ {0}
  /\ Faults \subseteq {"retry", "thread", "notify"}

VARIABLES
  mode,               \* where main() is: "run", "destroy" or "exit"
  open,               \* descriptors open in the process
  data,               \* the selector's items: the struct of each descriptor
  interest,           \* ... and what each descriptor is watched for
  heap,               \* the allocated structs, their pool and their references
  conn,               \* the contents of each struct socks5
  threads,            \* resolver threads
  jobs,               \* resolution_jobs: descriptors with an answered name
  is_auth_on,
  registered_users,
  historic_connections,
  current_connections

selectorVars == <<open, data, interest>>
resolverVars == <<threads, jobs>>
userVars     == <<is_auth_on, registered_users>>
statVars     == <<historic_connections, current_connections>>
vars == <<mode, selectorVars, heap, conn, resolverVars, userVars, statVars>>

NoFd == -1

States == {"NULL", "HELLO_READ", "HELLO_WRITE", "AUTH_READ", "AUTH_WRITE", "REQUEST_READ",
           "REQUEST_RESOLV", "REQUEST_CONNECTING", "REQUEST_WRITE", "COPY"}

(* A struct socks5. `state' is stm.current ("NULL" until the first event); *)
(* `status' the status of the union of auth_st and request_st; `domain'    *)
(* that the request names its destination; `res' the length of the list    *)
(* origin_resolution and `alts' how many of it follow the current one; `wb'*)
(* the replies in write_buffer; `uname' that client_uname is set.          *)
Conns ==
  [state : States, client_fd : Fds \cup {NoFd}, origin_fd : Fds \cup {NoFd},
   status : {"ok", "fail"}, domain : BOOLEAN, res : 0 .. MaxAddrs, alts : 0 .. MaxAddrs,
   wb : Nat, uname : BOOLEAN, copy : Copies]

Threads == [s : Structs, fd : Fds, phase : {"resolv", "notify"}]

(* What memset() leaves in a struct.                                       *)
NoConn ==
  [state |-> "NULL", client_fd |-> NoFd, origin_fd |-> NoFd, status |-> "fail",
   domain |-> FALSE, res |-> 0, alts |-> 0, wb |-> 0, uname |-> FALSE,
   copy |-> copy_init(buffer_init)]

(* The handlers client_statbl gives each state.                            *)
client_statbl(state) ==
  CASE state \in {"NULL", "HELLO_READ", "AUTH_READ", "REQUEST_READ"}               -> {OP_READ}
    [] state \in {"HELLO_WRITE", "AUTH_WRITE", "REQUEST_CONNECTING", "REQUEST_WRITE"} -> {OP_WRITE}
    [] state = "COPY"                                                 -> {OP_READ, OP_WRITE}
    [] OTHER                                                          -> {}

Init ==
  /\ mode = "run"
  /\ open = {}
  /\ data = [fd \in Fds |-> NoStruct]
  /\ interest = [fd \in Fds |-> {}]
  /\ heap = [mem |-> {}, pool |-> {}, pool_size |-> 0, references |-> [s \in Structs |-> 0]]
  /\ conn = [s \in Structs |-> NoConn]
  /\ threads = {}
  /\ jobs = {}
  /\ is_auth_on = TRUE
  /\ registered_users \in 0 .. MaxUsers
  /\ historic_connections = 0
  /\ current_connections = 0

-----------------------------------------------------------------------------
(* Descriptors, structs and the end of a connection.                       *)

(* The descriptor accept() and socket() return when those in o are open.   *)
LowestFree(fd, o) == fd \in Fds \ o /\ \A f \in Fds \ o : fd <= f

(* Mutant: the reference of the client's item is not counted.              *)
NewUnreferenced(h, s) ==
  [mem        |-> h.mem \cup {s},
   pool       |-> h.pool \ {s},
   pool_size  |-> h.pool_size,
   references |-> [h.references EXCEPT ![s] = 0]]

(* socks5_new takes a struct from the pool, or else allocates one.         *)
socks5_new(h, s) ==
  [mem        |-> h.mem \cup {s},
   pool       |-> h.pool \ {s},
   pool_size  |-> h.pool_size,
   references |-> [h.references EXCEPT ![s] = 1]]

(* Mutant: the references are not looked at.                               *)
DestroyUnconditionally(h, s) ==
  IF h.pool_size < MaxPool THEN [h EXCEPT !.pool = @ \cup {s}, !.pool_size = @ + 1]
                           ELSE [h EXCEPT !.mem = @ \ {s}]

Allocatable(h) == IF h.pool # {} THEN h.pool ELSE Structs \ h.mem

socks5_destroy(h, s) ==
  IF h.references[s] # 1
  THEN [h EXCEPT !.references = [h.references EXCEPT ![s] = @ - 1]]
  ELSE IF h.pool_size < MaxPool
       THEN [h EXCEPT !.pool = @ \cup {s}, !.pool_size = @ + 1]
       ELSE [h EXCEPT !.mem = @ \ {s}]

(* selector_unregister_fd clears the items of the descriptors in fds; its  *)
(* handle_close calls socks5_destroy.                                      *)
ClearData(fds)     == [fd \in Fds |-> IF fd \in fds THEN NoStruct ELSE data[fd]]
ClearInterest(fds) == [fd \in Fds |-> IF fd \in fds THEN {} ELSE interest[fd]]

(* Mutant: the origin's socket is not closed.                              *)
DoneKeepsOrigin(s) ==
  LET fds == {conn[s].client_fd, conn[s].origin_fd} \ {NoFd}
      h   == socks5_destroy(heap, s)
  IN  /\ open' = open \ {conn[s].client_fd}
      /\ data' = ClearData(fds)
      /\ interest' = ClearInterest(fds)
      /\ heap' = IF conn[s].origin_fd = NoFd THEN h ELSE socks5_destroy(h, s)
      /\ conn' = [conn EXCEPT ![s] = NoConn]

(* socksv5_done: the client's descriptor and then the origin's are         *)
(* unregistered and closed, and each drops its reference.                  *)
socksv5_done(s) ==
  LET fds == {conn[s].client_fd, conn[s].origin_fd} \ {NoFd}
      h   == socks5_destroy(heap, s)
  IN  /\ open' = open \ fds
      /\ data' = ClearData(fds)
      /\ interest' = ClearInterest(fds)
      /\ heap' = IF conn[s].origin_fd = NoFd THEN h ELSE socks5_destroy(h, s)
      /\ conn' = [conn EXCEPT ![s] = NoConn]

(* The selector calls the handler for op on descriptor fd, whose           *)
(* connection s is in state st.                                            *)
Event(fd, op, s, st) ==
  /\ mode = "run"
  /\ data[fd] = s
  /\ op \in interest[fd]
  /\ conn[s].state = st

(* The handler leaves c in struct s and watches descriptor fd for ops.     *)
Jump(s, c, fd, ops) ==
  /\ conn' = [conn EXCEPT ![s] = c]
  /\ interest' = [interest EXCEPT ![fd] = ops]
  /\ UNCHANGED <<open, data, heap>>

-----------------------------------------------------------------------------
(* The passive socket.                                                     *)

socksv5_passive_accept(fd, s) ==
  /\ mode = "run"
  /\ LowestFree(fd, open)
  /\ s \in Allocatable(heap)
  /\ open' = open \cup {fd}
  /\ data' = [data EXCEPT ![fd] = s]
  /\ interest' = [interest EXCEPT ![fd] = {OP_READ}]
  /\ heap' = socks5_new(heap, s)
  /\ conn' = [conn EXCEPT ![s] = [NoConn EXCEPT !.client_fd = fd]]
  /\ UNCHANGED <<mode, resolverVars, userVars, statVars>>

(* selector_register fails (a descriptor beyond FD_SETSIZE, or no memory): *)
(* the descriptor is closed and the struct destroyed.                      *)
AcceptFails(fd, s) ==
  /\ mode = "run"
  /\ LowestFree(fd, open)
  /\ s \in Allocatable(heap)
  /\ heap' = socks5_destroy(socks5_new(heap, s), s)
  /\ UNCHANGED <<mode, selectorVars, conn, resolverVars, userVars, statVars>>

-----------------------------------------------------------------------------
(* HELLO and AUTH.                                                         *)

(* Mutant: authentication comes back with the first user.                  *)
HelloInitRefreshes(s) ==
  is_auth_on' = IF conn[s].state = "NULL" THEN registered_users > 0 ELSE is_auth_on

(* handle_first: the first event enters HELLO_READ, and hello_read_init    *)
(* turns authentication off for everybody if there are no users.           *)
hello_read_init(s) ==
  is_auth_on' = (is_auth_on /\ (conn[s].state = "NULL" => registered_users > 0))

(* The message is not complete.                                            *)
HelloPartial(fd, s) ==
  /\ Event(fd, OP_READ, s, "NULL")
  /\ hello_read_init(s)
  /\ Jump(s, [conn[s] EXCEPT !.state = "HELLO_READ"], fd, {OP_READ})
  /\ UNCHANGED <<mode, resolverVars, registered_users, statVars>>

hello_read(fd, s) ==
  /\ \E st \in {"NULL", "HELLO_READ"} : Event(fd, OP_READ, s, st)
  /\ hello_read_init(s)
  /\ Jump(s, [conn[s] EXCEPT !.state = "HELLO_WRITE", !.wb = @ + 1], fd, {OP_WRITE})
  /\ UNCHANGED <<mode, resolverVars, registered_users, statVars>>

HelloFails(fd, s) ==
  /\ \E st \in {"NULL", "HELLO_READ"} : Event(fd, OP_READ, s, st)
  /\ hello_read_init(s)
  /\ socksv5_done(s)
  /\ UNCHANGED <<mode, resolverVars, registered_users, statVars>>

(* Entering AUTH_READ (auth_init) or REQUEST_READ (request_init) sets the  *)
(* status to failure.                                                      *)
hello_write(fd, s) ==
  /\ Event(fd, OP_WRITE, s, "HELLO_WRITE")
  /\ Jump(s, [conn[s] EXCEPT !.state  = IF is_auth_on THEN "AUTH_READ" ELSE "REQUEST_READ",
                             !.status = "fail",
                             !.wb     = 0], fd, {OP_READ})
  /\ UNCHANGED <<mode, resolverVars, userVars, statVars>>

(* auth_read and auth_process: only a registered user can succeed.         *)
auth_read(fd, s) ==
  /\ Event(fd, OP_READ, s, "AUTH_READ")
  /\ \E found \in {u \in BOOLEAN : u => registered_users > 0} :
       Jump(s, [conn[s] EXCEPT !.state  = "AUTH_WRITE",
                               !.status = IF found THEN "ok" ELSE "fail",
                               !.uname  = found,
                               !.wb     = @ + 1], fd, {OP_WRITE})
  /\ UNCHANGED <<mode, resolverVars, userVars, statVars>>

auth_write(fd, s) ==
  /\ Event(fd, OP_WRITE, s, "AUTH_WRITE")
  /\ IF conn[s].status = "ok"
     THEN Jump(s, [conn[s] EXCEPT !.state = "REQUEST_READ", !.status = "fail", !.wb = 0],
               fd, {OP_READ})
     ELSE socksv5_done(s)
  /\ UNCHANGED <<mode, resolverVars, userVars, statVars>>

(* recv() or send() fails, the client closes, or its message is no auth or *)
(* request message: ERROR from any state before COPY but HELLO_READ.       *)
HandshakeError(fd, s) ==
  /\ \/ \E st \in {"AUTH_READ", "REQUEST_READ"} : Event(fd, OP_READ, s, st)
     \/ \E st \in {"HELLO_WRITE", "AUTH_WRITE", "REQUEST_WRITE"} : Event(fd, OP_WRITE, s, st)
  /\ socksv5_done(s)
  /\ UNCHANGED <<mode, resolverVars, userVars, statVars>>

-----------------------------------------------------------------------------
(* REQUEST.                                                                *)

(* Mutant: the reply is not put in write_buffer.                           *)
ErrorReplyUnqueued(c) == [c EXCEPT !.status = "fail"]

(* request_error_write queues the reply and watches the client for room.   *)
ErrorReply(c) == [c EXCEPT !.status = "fail", !.wb = @ + 1]

(* Mutant: the client's interest is left as it was.                        *)
ErrorWriteUnwatched(s, c) ==
  Jump(s, [ErrorReply(c) EXCEPT !.state = "REQUEST_WRITE"], c.client_fd, interest[c.client_fd])

request_error_write(s, c) ==
  Jump(s, [ErrorReply(c) EXCEPT !.state = "REQUEST_WRITE"], c.client_fd, {OP_WRITE})

(* request_connect opens a socket and the connection is under way. `old' is *)
(* the descriptor it has just unregistered and closed, if any, and h the   *)
(* heap since then.                                                        *)
ConnectStarts(s, c, old, h) ==
  \E fd \in Fds :
    /\ LowestFree(fd, open \ old)
    /\ open' = (open \ old) \cup {fd}
    /\ data' = [ClearData(old) EXCEPT ![fd] = s]
    /\ interest' = [ClearInterest(old) EXCEPT ![c.client_fd] = {}, ![fd] = {OP_WRITE}]
    /\ heap' = [h EXCEPT !.references = [h.references EXCEPT ![s] = @ + 1]]
    /\ conn' = [conn EXCEPT ![s] = [c EXCEPT !.state = "REQUEST_CONNECTING", !.origin_fd = fd]]

(* Mutant: the number of the closed socket stays in origin_fd.             *)
ConnectFailsStaleFd(s, c, old, h) ==
  /\ open' = open \ old
  /\ data' = ClearData(old)
  /\ interest' = [ClearInterest(old) EXCEPT ![c.client_fd] = {OP_WRITE}]
  /\ heap' = h
  /\ \E fd \in Fds :
       /\ LowestFree(fd, open \ old)
       /\ conn' = [conn EXCEPT ![s] = [ErrorReply(c) EXCEPT
                    !.state = "REQUEST_WRITE", !.origin_fd = fd]]

(* socket(), connect() or selector_register() fails: what was opened is    *)
(* closed again, and the client gets an error reply. After a further       *)
(* attempt the caller ignores the state that is returned, and the          *)
(* connection stays in REQUEST_CONNECTING.                                 *)
ConnectFails(s, c, old, h) ==
  /\ open' = open \ old
  /\ data' = ClearData(old)
  /\ interest' = [ClearInterest(old) EXCEPT ![c.client_fd] = {OP_WRITE}]
  /\ heap' = h
  /\ conn' = [conn EXCEPT ![s] = [ErrorReply(c) EXCEPT
                !.state     = IF c.state = "REQUEST_CONNECTING" THEN @ ELSE "REQUEST_WRITE",
                !.origin_fd = NoFd]]

(* request_connect for struct s with contents c. On a further attempt (the *)
(* state is REQUEST_CONNECTING) the old socket goes first.                 *)
request_connect(s, c) ==
  LET again == c.state = "REQUEST_CONNECTING"
      old   == IF again THEN {c.origin_fd} \ {NoFd} ELSE {}
      h     == IF old = {} THEN heap ELSE socks5_destroy(heap, s)
  IN  \/ ConnectStarts(s, c, old, h)
      \/ (again => "retry" \in Faults) /\ ConnectFails(s, c, old, h)

(* request_read with a complete request, and request_process on it.        *)
RequestRefused(fd, s) ==
  /\ Event(fd, OP_READ, s, "REQUEST_READ")
  /\ request_error_write(s, conn[s])
  /\ UNCHANGED <<mode, resolverVars, userVars, statVars>>

RequestAddress(fd, s) ==
  /\ Event(fd, OP_READ, s, "REQUEST_READ")
  /\ request_connect(s, conn[s])
  /\ UNCHANGED <<mode, resolverVars, userVars, statVars>>

(* A failure of pthread_create() is compared with -1, which it never is.   *)
RequestName(fd, s) ==
  /\ Event(fd, OP_READ, s, "REQUEST_READ")
  /\ Jump(s, [conn[s] EXCEPT !.state = "REQUEST_RESOLV", !.domain = TRUE], fd, {})
  /\ \/ threads' = threads \cup {[s |-> s, fd |-> fd, phase |-> "resolv"]}
     \/ "thread" \in Faults /\ UNCHANGED threads
  /\ UNCHANGED <<mode, jobs, userVars, statVars>>

(* request_resolv_blocking in thread t: getaddrinfo() has returned n       *)
(* addresses (none is a failure), stored in the struct without a lock ...  *)
request_resolv_blocking(t) ==
  /\ mode # "exit"
  /\ t.phase = "resolv"
  /\ \E n \in 0 .. MaxAddrs : conn' = [conn EXCEPT ![t.s] = [@ EXCEPT !.res = n]]
  /\ threads' = (threads \ {t}) \cup {[t EXCEPT !.phase = "notify"]}
  /\ UNCHANGED <<mode, selectorVars, heap, jobs, userVars, statVars>>

(* Mutant: the answer is not queued.                                       *)
NotifyForgets(t) ==
  /\ mode # "exit"
  /\ t.phase = "notify"
  /\ threads' = threads \ {t}
  /\ UNCHANGED <<mode, selectorVars, heap, conn, jobs, userVars, statVars>>

(* ... and then the job is queued and the selector's thread signalled.     *)
selector_notify_block(t) ==
  /\ mode # "exit"
  /\ t.phase = "notify"
  /\ \/ jobs' = jobs \cup {t.fd}
     \/ "notify" \in Faults /\ UNCHANGED jobs
  /\ threads' = threads \ {t}
  /\ UNCHANGED <<mode, selectorVars, heap, conn, userVars, statVars>>

(* Mutant: the current address is not left out of the ones to come.        *)
FirstAddressOffByOne(c) == [c EXCEPT !.alts = c.res]

FirstAddress(c) == [c EXCEPT !.alts = c.res - 1]

(* Mutant: the job stays in the queue.                                     *)
TakeJobKeeps(fd) == fd \in jobs /\ UNCHANGED jobs

(* handle_block_notifications takes a job off the queue.                   *)
TakeJob(fd) == fd \in jobs /\ jobs' = jobs \ {fd}

(* ... and runs request_resolv_done.                                       *)
request_resolv_done(fd, s) ==
  /\ mode = "run"
  /\ TakeJob(fd)
  /\ data[fd] = s
  /\ conn[s].state = "REQUEST_RESOLV"
  /\ IF conn[s].res = 0
     THEN request_error_write(s, conn[s])
     ELSE request_connect(s, FirstAddress(conn[s]))
  /\ UNCHANGED <<mode, threads, userVars, statVars>>

-----------------------------------------------------------------------------
(* REQUEST_CONNECTING and REQUEST_WRITE.                                   *)

(* request_connecting with SO_ERROR = 0 (connected), or with no address    *)
(* left to try: the list of addresses is freed and the reply queued.       *)
(* (getsockopt() does not fail on an open socket.)                         *)
request_connecting(fd, s, connected) ==
  /\ Event(fd, OP_WRITE, s, "REQUEST_CONNECTING")
  /\ connected \/ ~conn[s].domain \/ conn[s].alts = 0
  /\ conn' = [conn EXCEPT ![s] =
       [conn[s] EXCEPT !.state     = "REQUEST_WRITE",
                       !.status    = IF connected THEN "ok" ELSE "fail",
                       !.origin_fd = IF connected THEN fd ELSE @,
                       !.res       = 0,
                       !.alts      = 0,
                       !.wb        = @ + 1]]
  /\ interest' = [interest EXCEPT ![conn[s].client_fd] = {OP_WRITE}, ![fd] = {}]
  /\ UNCHANGED <<mode, open, data, heap, resolverVars, userVars, statVars>>

(* SO_ERROR is set and the name has another address.                       *)
ConnectAgain(fd, s) ==
  /\ Event(fd, OP_WRITE, s, "REQUEST_CONNECTING")
  /\ conn[s].domain /\ conn[s].alts > 0
  /\ request_connect(s, [conn[s] EXCEPT !.alts = @ - 1])
  /\ UNCHANGED <<mode, resolverVars, userVars, statVars>>

(* request_write has sent the whole reply. read_buffer holds what the      *)
(* client sent behind its request, and both ends are only watched for      *)
(* reading, whatever it is.                                                *)
request_write(fd, s) ==
  /\ Event(fd, OP_WRITE, s, "REQUEST_WRITE")
  /\ conn[s].status = "ok"
  /\ \E rb \in EarlyBuffers :
       conn' = [conn EXCEPT ![s] =
         [@ EXCEPT !.state = "COPY", !.wb = 0, !.copy = copy_init(rb)]]
  /\ interest' = [interest EXCEPT ![conn[s].client_fd] = {OP_READ},
                                  ![conn[s].origin_fd] = {OP_READ}]
  /\ historic_connections' = (historic_connections + 1) % CounterMod
  /\ current_connections' = (current_connections + 1) % CounterMod
  /\ UNCHANGED <<mode, open, data, heap, resolverVars, userVars>>

(* ... of a request that failed: the connection ends.                      *)
RequestFailed(fd, s) ==
  /\ Event(fd, OP_WRITE, s, "REQUEST_WRITE")
  /\ conn[s].status = "fail"
  /\ socksv5_done(s)
  /\ UNCHANGED <<mode, resolverVars, userVars, statVars>>

-----------------------------------------------------------------------------
(* COPY.                                                                   *)

copy_ptr(fd, s) == IF conn[s].client_fd = fd THEN "client" ELSE "origin"

(* Mutant: a connection that ends is still counted.                        *)
CountForgets == UNCHANGED current_connections

CountDone == current_connections' = (current_connections - 1) % CounterMod

(* What copy_r and copy_w end with, c being the new struct copy pair.      *)
CopyStep(s, e, c) ==
  IF copy_done(c, e)
  THEN /\ socksv5_done(s)
       /\ CountDone
  ELSE /\ conn' = [conn EXCEPT ![s] = [@ EXCEPT !.copy = c]]
       /\ interest' = [interest EXCEPT
            ![conn[s].client_fd] = copy_compute_interests(c, "client"),
            ![conn[s].origin_fd] = copy_compute_interests(c, "origin")]
       /\ UNCHANGED <<open, data, heap, current_connections>>

(* Any result of recv() that the room in the buffer allows.                *)
CopyRead(fd, s) ==
  /\ Event(fd, OP_READ, s, "COPY")
  /\ LET c == conn[s].copy
         e == copy_ptr(fd, s)
     IN  \E n \in -1 .. buffer_write_ptr(c.buf[e]) : CopyStep(s, e, copy_r(c, e, n))
  /\ UNCHANGED <<mode, resolverVars, userVars, historic_connections>>

(* Any result of send() with at least one byte queued.                     *)
CopyWrite(fd, s) ==
  /\ Event(fd, OP_WRITE, s, "COPY")
  /\ LET c == conn[s].copy
         e == copy_ptr(fd, s)
     IN  \E n \in (-1 .. buffer_read_ptr(c.buf[other(e)])) \ {0} :
           CopyStep(s, e, copy_w(c, e, n))
  /\ UNCHANGED <<mode, resolverVars, userVars, historic_connections>>

-----------------------------------------------------------------------------
(* The users, which the monitor registers and unregisters.                 *)

socksv5_register_user ==
  /\ mode = "run"
  /\ registered_users < MaxUsers
  /\ registered_users' = registered_users + 1
  /\ UNCHANGED <<mode, selectorVars, heap, conn, resolverVars, is_auth_on, statVars>>

socksv5_unregister_user ==
  /\ mode = "run"
  /\ registered_users > 0
  /\ registered_users' = registered_users - 1
  /\ UNCHANGED <<mode, selectorVars, heap, conn, resolverVars, is_auth_on, statVars>>

-----------------------------------------------------------------------------
(* The end of main(): selector_destroy unregisters every item, in order,   *)
(* without closing the descriptors; then the pool is freed.                *)

sigterm_handler ==
  /\ mode = "run"
  /\ mode' = "destroy"
  /\ UNCHANGED <<selectorVars, heap, conn, resolverVars, userVars, statVars>>

Registered == {fd \in Fds : data[fd] # NoStruct}

selector_destroy(fd) ==
  /\ mode = "destroy"
  /\ fd \in Registered
  /\ \A f \in Registered : fd <= f
  /\ heap' = socks5_destroy(heap, data[fd])
  /\ data' = ClearData({fd})
  /\ interest' = ClearInterest({fd})
  /\ UNCHANGED <<mode, open, conn, resolverVars, userVars, statVars>>

(* Mutant: the pool is freed before the selector is destroyed.             *)
PoolDestroyFirst ==
  /\ mode = "destroy"
  /\ heap' = [heap EXCEPT !.mem = @ \ heap.pool, !.pool = {}]
  /\ mode' = "exit"
  /\ UNCHANGED <<selectorVars, conn, resolverVars, userVars, statVars>>

socksv5_pool_destroy ==
  /\ mode = "destroy"
  /\ Registered = {}
  /\ heap' = [heap EXCEPT !.mem = @ \ heap.pool, !.pool = {}]
  /\ mode' = "exit"
  /\ UNCHANGED <<selectorVars, conn, resolverVars, userVars, statVars>>

Exited ==
  /\ mode = "exit"
  /\ UNCHANGED vars

-----------------------------------------------------------------------------
ConnectionStep(fd, s) ==
  \/ socksv5_passive_accept(fd, s) \/ AcceptFails(fd, s)
  \/ HelloPartial(fd, s) \/ hello_read(fd, s) \/ HelloFails(fd, s) \/ hello_write(fd, s)
  \/ auth_read(fd, s) \/ auth_write(fd, s) \/ HandshakeError(fd, s)
  \/ RequestRefused(fd, s) \/ RequestAddress(fd, s) \/ RequestName(fd, s)
  \/ request_resolv_done(fd, s)
  \/ \E connected \in BOOLEAN : request_connecting(fd, s, connected)
  \/ ConnectAgain(fd, s)
  \/ request_write(fd, s) \/ RequestFailed(fd, s)
  \/ CopyRead(fd, s) \/ CopyWrite(fd, s)

ResolverStep(t) == request_resolv_blocking(t) \/ selector_notify_block(t)

Next ==
  \/ \E fd \in Fds, s \in Structs : ConnectionStep(fd, s)
  \/ \E t \in threads : ResolverStep(t)
  \/ socksv5_register_user \/ socksv5_unregister_user
  \/ sigterm_handler \/ (\E fd \in Fds : selector_destroy(fd)) \/ socksv5_pool_destroy
  \/ Exited

Spec == Init /\ [][Next]_vars

(* getaddrinfo() and connect() give up sooner or later, and every round of *)
(* selector_select serves all ready descriptors and all queued jobs. A     *)
(* client makes room for its reply, or its connection breaks.              *)
Fairness ==
  /\ \A t \in Threads : WF_vars(t \in threads /\ ResolverStep(t))
  /\ \A fd \in Fds, s \in Structs :
       /\ WF_vars(request_resolv_done(fd, s))
       /\ WF_vars(ConnectAgain(fd, s) \/
                  \E connected \in BOOLEAN : request_connecting(fd, s, connected))
       /\ WF_vars(request_write(fd, s) \/ RequestFailed(fd, s))

FairSpec == Spec /\ Fairness

-----------------------------------------------------------------------------
(* Properties.                                                             *)

TypeOK ==
  /\ mode \in {"run", "destroy", "exit"}
  /\ open \in SUBSET Fds
  /\ data \in [Fds -> Structs \cup {NoStruct}]
  /\ interest \in [Fds -> Interests]
  /\ heap \in [mem : SUBSET Structs, pool : SUBSET Structs, pool_size : Nat,
               references : [Structs -> Nat]]
  /\ conn \in [Structs -> Conns]
  /\ threads \in SUBSET Threads
  /\ jobs \in SUBSET Fds
  /\ is_auth_on \in BOOLEAN
  /\ registered_users \in 0 .. MaxUsers
  /\ historic_connections \in 0 .. CounterMod - 1
  /\ current_connections \in 0 .. CounterMod - 1

(* The structs handed out by socks5_new and not yet destroyed.             *)
InUse == heap.mem \ heap.pool

(* The items of the selector that point to struct s.                       *)
References(s) ==
  LET c == conn[s]
      Holds(fd) == fd \in Fds /\ data[fd] = s
  IN  (IF Holds(c.client_fd) THEN 1 ELSE 0) +
      (IF Holds(c.origin_fd) /\ c.origin_fd # c.client_fd THEN 1 ELSE 0)

(* Every item points to a struct in use, through one of the descriptors    *)
(* that struct knows, and `references' counts exactly those items: no      *)
(* struct is pooled or freed while an item points to it (socksv5_done,     *)
(* request_connect's retry and selector_destroy drop references), and none *)
(* stays in use without one.                                               *)
RefCounts ==
  /\ heap.pool \subseteq heap.mem
  /\ \A fd \in Fds : data[fd] # NoStruct =>
       data[fd] \in InUse /\ fd \in {conn[data[fd]].client_fd, conn[data[fd]].origin_fd}
  /\ \A s \in InUse : heap.references[s] = References(s) /\ References(s) > 0

(* While the server runs, a descriptor is open if and only if it is        *)
(* registered: none leaks on an error path of request_connect or           *)
(* socksv5_passive_accept, and pselect() never sees a closed one (EBADF    *)
(* ends main()'s loop).                                                    *)
DescriptorsAccounted == mode = "run" => open = Registered

(* stm_handler_* abort() the whole server when an event arrives in a state *)
(* without a handler for it: no descriptor is ever watched for one, and a  *)
(* job is only handled in REQUEST_RESOLV.                                  *)
HandlersReady ==
  mode = "run" =>
    /\ \A fd \in Registered : interest[fd] \subseteq client_statbl(conn[data[fd]].state)
    /\ \A fd \in jobs : fd \in Registered /\ conn[data[fd]].state = "REQUEST_RESOLV"

(* A resolver thread, which works on the struct and the descriptor it was  *)
(* given at the start without any lock, finds both still belonging to the  *)
(* connection that waits for it, and no other answer is on its way.        *)
ResolverTargetsLive ==
  mode = "run" => \A t \in threads :
    /\ t.s \in InUse
    /\ data[t.fd] = t.s
    /\ conn[t.s].state = "REQUEST_RESOLV"
    /\ t.fd \notin jobs
    /\ \A u \in threads : u.s = t.s => u = t

(* While a name is being connected to, the list of its addresses is        *)
(* allocated and the current one is in it (request_connecting follows      *)
(* ai_next and frees the list), and it is gone once the copy has started.  *)
AddressListLive ==
  mode = "run" => \A s \in InUse :
    /\ conn[s].state = "REQUEST_CONNECTING" /\ conn[s].domain => conn[s].alts < conn[s].res
    /\ conn[s].state = "COPY" => conn[s].res = 0

(* current_connections is the number of connections that are copying, on   *)
(* every way in and out of COPY, modulo its width.                         *)
CurrentExact ==
  mode = "run" =>
    current_connections = Cardinality({s \in InUse : conn[s].state = "COPY"}) % CounterMod

(* Whenever a request or credentials are logged while authentication is    *)
(* on, client_uname is set (the log prints it with %s), although is_auth_on*)
(* is shared and may change during the handshake.                          *)
LoggedUserKnown ==
  is_auth_on => \A s \in InUse :
    conn[s].state \in {"REQUEST_READ", "REQUEST_RESOLV", "REQUEST_CONNECTING",
                       "REQUEST_WRITE", "COPY"} => conn[s].uname

(* After the teardown of main() no struct socks5 is left allocated.        *)
AllFreed == mode = "exit" => heap.mem = {}

(* The pair of copies is as request_write leaves it with early bytes.      *)
EarlyCopy(k) == \E rb \in EarlyBuffers \ {buffer_init} : k = copy_init(rb)

(* The interests the comments of enum socks_v5state give for each state:   *)
(* every path into a state, and every handler that stays in it, leaves     *)
(* them. One entry is excepted, as the code does not do what the comment   *)
(* of COPY says: with early bytes COPY starts with OP_READ alone on both   *)
(* ends (Relay's ClosedByPeers shows what may come of it), and the first   *)
(* event of the copy puts that right.                                      *)
DocumentedInterests ==
  mode = "run" => \A s \in InUse :
    LET c == conn[s]
        Watched(fd, ops) == data[fd] = s /\ interest[fd] = ops
    IN  /\ c.state \in {"NULL", "HELLO_READ", "AUTH_READ", "REQUEST_READ"} =>
             Watched(c.client_fd, {OP_READ})
        /\ c.state \in {"HELLO_WRITE", "AUTH_WRITE", "REQUEST_WRITE"} =>
             Watched(c.client_fd, {OP_WRITE})
        /\ c.state = "REQUEST_RESOLV" => Watched(c.client_fd, {})
        /\ c.state = "REQUEST_CONNECTING" =>
             c.origin_fd # NoFd /\ Watched(c.origin_fd, {OP_WRITE}) /\ Watched(c.client_fd, {})
        /\ c.state = "REQUEST_WRITE" /\ c.origin_fd # NoFd => Watched(c.origin_fd, {})
        /\ c.state = "COPY" =>
             \/ /\ Watched(c.client_fd, copy_compute_interests(c.copy, "client"))
                /\ Watched(c.origin_fd, copy_compute_interests(c.copy, "origin"))
             \/ /\ EarlyCopy(c.copy)
                /\ Watched(c.client_fd, {OP_READ}) /\ Watched(c.origin_fd, {OP_READ})

(* One reply per message: write_buffer holds one in the states that send   *)
(* it and none in the others, so that no reply of the handshake ever       *)
(* reaches the copied stream.                                              *)
OneReply ==
  mode = "run" => \A s \in InUse :
    conn[s].wb = IF conn[s].state \in {"HELLO_WRITE", "AUTH_WRITE", "REQUEST_WRITE"} THEN 1 ELSE 0

(* The events of one connection leave the descriptors of the others alone, *)
(* even when the number of a closed descriptor has been given to another   *)
(* connection.                                                             *)
Isolation ==
  [][mode' = "run" => \A fd \in Registered :
       conn'[data[fd]] = conn[data[fd]] =>
         fd \in open' /\ data'[fd] = data[fd] /\ interest'[fd] = interest[fd]]_vars

(* Every request is answered: no connection waits for ever for its         *)
(* resolver, for an origin or for its reply to be sent, unless the server  *)
(* is told to stop.                                                        *)
RequestAnswered ==
  \A s \in Structs :
    (mode = "run" /\ conn[s].state \in {"REQUEST_RESOLV", "REQUEST_CONNECTING", "REQUEST_WRITE"})
      ~> (mode # "run" \/ conn[s].state \in {"COPY", "NULL"})
=============================================================================
