------------------------------ MODULE HomaTestApps ------------------------------
(***************************************************************************)
(* The epoll test programs of src/Testing-APPs: the closed-loop clients    *)
(* client_100B.c (Homa) and client_tcp_1KB.c (TCP), and the servers        *)
(* server_100B.c (Homa, one peeled-off socket per client) and              *)
(* server_tcp_100B.c (TCP, one accepted socket per client).                *)
(*                                                                         *)
(* One run of one program is modelled.  Each program keeps a heap-         *)
(* allocated context per socket in an array contexts[MAX_EVENTS] with a    *)
(* fill count total_contexts; the model follows each context through       *)
(* malloc and free, and the array through its stores.  The kernel is the   *)
(* environment: every system call returns one of its possible outcomes,   *)
(* and a failure (of a kind listed in Faults, at most MaxFaults of them)   *)
(* is one of those outcomes.  Data and addresses are left out.             *)
(***************************************************************************)
EXTENDS Naturals

CONSTANTS
    Programs,    \* the programs considered
    NumSockets,  \* client_sock_num, the clients' argument
    MaxEvents,   \* MAX_EVENTS, the size of contexts[]
    MaxConns,    \* bound on the clients a server accepts in one run
    Faults,      \* the kinds of failure the environment may produce
    MaxFaults    \* bound on the failures in one run

ClientPrograms == {"homa_client", "tcp_client"}
ServerPrograms == {"homa_server", "tcp_server"}

\* "setup": a call of the set-up phase fails (socket, mmap, setsockopt,
\* connect, bind, epoll_ctl); "io": recvmsg, send, reply, peeloff or accept
\* fails in the event loop; "wait": epoll_wait fails; "eof": the peer of a
\* TCP client closes the connection; "sigint": SIGINT reaches the server.
FaultKinds == {"setup", "io", "wait", "eof", "sigint"}

Unset == 0                            \* a slot of contexts[] never written
Objs == 1 .. NumSockets + MaxConns    \* the contexts a run can malloc
Slots == 0 .. MaxEvents - 1
Listening == NumSockets + MaxConns + 1  \* the server's listening socket

VARIABLES
    prog,      \* the program running
    pc,        \* where it is
    i,         \* the set-up loop variable of a client
    cur,       \* the context being set up, or the one an event is for
    total,     \* total_contexts
    contexts,  \* contexts[]: a context or Unset per slot
    heap,      \* per context: "none" (not allocated), "live", "freed"
    waiting,   \* per context: sent_but_not_received
    conns,     \* clients a server has taken on
    timed_out, \* the clients' timed_out, set by SIGALRM
    ready,     \* the events of the last epoll_wait not yet handled
    faults,    \* failures so far
    err        \* the first memory error: "none", "wild_free", "double_free",
               \* "use_after_free", "overflow"

vars == <<prog, pc, i, cur, total, contexts, heap, waiting, conns, timed_out,
          ready, faults, err>>

-----------------------------------------------------------------------------
\* The outcomes of a call: the successful ones, and the failures of the
\* given kind while the environment may still fail.
Outcomes(kind, ok, fail) ==
    ok \cup (IF kind \in Faults /\ faults < MaxFaults THEN fail ELSE {})

\* The heap after the loop "for (k = 0; k < n; k++) { close(contexts[k]->fd);
\* ...; free(contexts[k]); }" over the array ctx.
Freed(hp, ctx, n) ==
    [o \in Objs |-> IF \E k \in Slots : k < n /\ ctx[k] = o /\ hp[o] = "live"
                    THEN "freed" ELSE hp[o]]

\* The memory error that loop commits: freeing through a slot never
\* written, or freeing a context a second time.
FreeErr(e, hp, ctx, n) ==
    IF e # "none" THEN e
    ELSE IF \E k \in Slots : k < n /\ ctx[k] = Unset THEN "wild_free"
    ELSE IF \E k \in Slots : k < n /\ ctx[k] # Unset /\ hp[ctx[k]] = "freed"
         THEN "double_free"
    ELSE e

FreeSlots(n) ==
    /\ heap' = Freed(heap, contexts, n)
    /\ err' = FreeErr(err, heap, contexts, n)

\* contexts[total_contexts] = o; total_contexts++, with no bound check.
Store(o) ==
    /\ contexts' = IF total < MaxEvents THEN [contexts EXCEPT ![total] = o]
                   ELSE contexts
    /\ err' = IF total >= MaxEvents /\ err = "none" THEN "overflow" ELSE err
    /\ total' = total + 1

\* The context malloc returns: one per client socket, one per accepted client.
NewObj == IF prog \in ClientPrograms THEN i + 1 ELSE NumSockets + conns + 1

\* Contexts are closed and freed together, so the open sockets are the live
\* contexts; epoll reports events only for those.
Live == {o \in Objs : heap[o] = "live"}

FailedIf(r, fail) == faults' = faults + (IF r \in fail THEN 1 ELSE 0)

Init ==
    /\ prog \in Programs
    /\ pc = "setup"
    /\ i = 0
    /\ cur = Unset
    /\ total = 0
    /\ contexts = [k \in Slots |-> Unset]
    /\ heap = [o \in Objs |-> "none"]
    /\ waiting = [o \in Objs |-> FALSE]
    /\ conns = 0
    /\ timed_out = FALSE
    /\ ready = {}
    /\ faults = 0
    /\ err = "none"

-----------------------------------------------------------------------------
(* The clients' set-up loop (client_100B.c 86-133, client_tcp_1KB.c 79-98): *)
(* socket, malloc of the context, then mmap, setsockopt and connect.  A    *)
(* failed socket() exits.  A later failure runs the loop "free contexts[n] *)
(* for n < i + 1", which reaches contexts[i] before it is written, closes  *)
(* the new socket and goes on: every later call on that socket fails, and  *)
(* each failure repeats the loop over the same contexts.                   *)
ClientSetup ==
    /\ prog \in ClientPrograms /\ pc = "setup" /\ i < NumSockets
    /\ \E r \in Outcomes("setup", {"ok"}, {"nosocket", "fail"}) :
        LET hp == [heap EXCEPT ![NewObj] = "live"]
        IN /\ heap' = IF r = "nosocket" THEN heap
                      ELSE IF r = "fail" THEN Freed(hp, contexts, i + 1)
                      ELSE hp
           /\ err' = IF r = "fail" THEN FreeErr(err, hp, contexts, i + 1)
                     ELSE err
           /\ cur' = IF r = "nosocket" THEN cur ELSE NewObj
           /\ pc' = IF r = "nosocket" THEN "exit"
                    ELSE IF r = "fail" THEN "store_closed"
                    ELSE "store"
           /\ FailedIf(r, {"nosocket", "fail"})
    /\ UNCHANGED <<prog, i, total, contexts, waiting, conns, timed_out, ready>>

(* contexts[total_contexts] = context; total_contexts++ (lines 134-135 and  *)
(* 99-100).                                                                *)
ClientStore ==
    /\ prog \in ClientPrograms /\ pc \in {"store", "store_closed"}
    /\ Store(cur)
    /\ pc' = IF pc = "store" THEN "epoll" ELSE "epoll_closed"
    /\ UNCHANGED <<prog, i, cur, heap, waiting, conns, timed_out, ready,
                   faults>>

(* epoll_ctl (lines 136-147 and 101-112): on failure the same loop over    *)
(* n < i + 1, then exit; it always fails on a socket already closed.       *)
ClientEpoll ==
    /\ prog \in ClientPrograms /\ pc \in {"epoll", "epoll_closed"}
    /\ \E r \in IF pc = "epoll_closed" THEN {"closed"}
                 ELSE Outcomes("setup", {"ok"}, {"fail"}) :
        /\ i' = IF r = "ok" THEN i + 1 ELSE i
        /\ pc' = IF r = "ok" THEN "setup" ELSE "exit"
        /\ IF r = "ok" THEN UNCHANGED <<heap, err>> ELSE FreeSlots(i + 1)
        /\ FailedIf(r, {"fail"})
    /\ UNCHANGED <<prog, cur, total, contexts, waiting, conns, timed_out,
                   ready>>

(* alarm(running_time) and the loop (lines 149-150 and 114-115).           *)
ClientStart ==
    /\ prog \in ClientPrograms /\ pc = "setup" /\ i = NumSockets
    /\ pc' = "loop"
    /\ UNCHANGED <<prog, i, cur, total, contexts, heap, waiting, conns,
                   timed_out, ready, faults, err>>

(* SIGALRM: set_timedout (lines 24-26 and 19-21).                          *)
Alarm ==
    /\ prog \in ClientPrograms /\ pc \in {"loop", "send", "hung"}
    /\ ~timed_out
    /\ timed_out' = TRUE
    /\ UNCHANGED <<prog, pc, i, cur, total, contexts, heap, waiting, conns,
                   ready, faults, err>>

(* epoll_wait while !timed_out (lines 150-151 and 115-116): some of the    *)
(* sockets are ready.                                                      *)
ClientWait ==
    /\ prog \in ClientPrograms /\ pc = "loop" /\ ready = {} /\ ~timed_out
    /\ \E b \in SUBSET Live \ {{}} : ready' = b
    /\ UNCHANGED <<prog, pc, i, cur, total, contexts, heap, waiting, conns,
                   timed_out, faults, err>>

(* The end of a client: the loop sees timed_out, or epoll_wait returns -1  *)
(* (interrupted by SIGALRM, or failing); either way cleanup(contexts,      *)
(* total_contexts) runs (lines 152-157, 178-181 and 117-123, 146-149).     *)
ClientStop ==
    /\ prog \in ClientPrograms /\ pc = "loop" /\ ready = {}
    /\ \E r \in (IF timed_out THEN {"timed_out"} ELSE {})
                \cup Outcomes("wait", {}, {"fail"}) :
        /\ pc' = IF r = "fail" /\ prog = "tcp_client" THEN "exit" ELSE "done"
        /\ FailedIf(r, {"fail"})
    /\ FreeSlots(total)
    /\ UNCHANGED <<prog, i, cur, total, contexts, waiting, conns, timed_out,
                   ready>>

(* client_sock_recvmsg (client_100B.c 47-65): EAGAIN returns 0, another  *)
(* error -1; a response clears sent_but_not_received, and then the         *)
(* function ends with no return statement, so main reads an undefined     *)
(* value and, when it is negative, tests an errno left by an earlier call *)
(* ("undef").                                                              *)
ClientSockRecvmsg(o) ==
    {"eagain"} \cup (IF waiting[o] THEN {"response", "undef"} ELSE {})
               \cup Outcomes("io", {}, {"error"})

(* client_sock_recv (client_tcp_1KB.c 41-58): recv until EAGAIN.  After    *)
(* the server closes the connection recv returns 0 on every call, which   *)
(* the loop takes for data: it never ends ("eof").                         *)
ClientSockRecv(o) ==
    {"eagain"} \cup (IF waiting[o] THEN {"response"} ELSE {})
               \cup Outcomes("io", {}, {"error"})
               \cup Outcomes("eof", {}, {"eof"})

(* The EPOLLIN half of an event (client_100B.c 158-168, client_tcp_1KB.c  *)
(* 124-135): a response clears sent_but_not_received; an error cleans up  *)
(* and exits.  An event without EPOLLIN is an "eagain".                    *)
ClientRecv ==
    /\ prog \in ClientPrograms /\ pc = "loop"
    /\ \E o \in ready :
        /\ ready' = ready \ {o}
        /\ cur' = o
        /\ \E r \in IF prog = "homa_client" THEN ClientSockRecvmsg(o)
                     ELSE ClientSockRecv(o) :
            /\ waiting' = IF r \in {"response", "undef", "eof"}
                          THEN [waiting EXCEPT ![o] = FALSE] ELSE waiting
            /\ pc' = IF r \in {"undef", "error"} THEN "exit"
                     ELSE IF r = "eof" THEN "hung"
                     ELSE "send"
            /\ IF r \in {"undef", "error"} THEN FreeSlots(total)
               ELSE UNCHANGED <<heap, err>>
            /\ FailedIf(r, {"error", "eof"})
    /\ UNCHANGED <<prog, i, total, contexts, conns, timed_out>>

(* client_sock_sendmsg and client_sock_send (client_100B.c 34-46,          *)
(* client_tcp_1KB.c 29-40): one request per socket until its response     *)
(* arrives.                                                                *)
ClientSockSend(o) ==
    IF waiting[o] THEN {"blocked"}
    ELSE Outcomes("io", {"sent"}, {"error"})

(* The EPOLLOUT half (client_100B.c 169-175, client_tcp_1KB.c 136-143): a  *)
(* socket not writable is skipped; a failed send cleans up and exits.      *)
ClientSend ==
    /\ prog \in ClientPrograms /\ pc = "send"
    /\ \E r \in ClientSockSend(cur) \cup {"unwritable"} :
        /\ waiting' = IF r = "sent" THEN [waiting EXCEPT ![cur] = TRUE]
                      ELSE waiting
        /\ pc' = IF r = "error" THEN "exit" ELSE "loop"
        /\ IF r = "error" THEN FreeSlots(total) ELSE UNCHANGED <<heap, err>>
        /\ FailedIf(r, {"error"})
    /\ UNCHANGED <<prog, i, cur, total, contexts, conns, timed_out, ready>>

-----------------------------------------------------------------------------
(* The servers' set-up (server_100B.c 80-134, server_tcp_100B.c 55-85):   *)
(* every failure returns or exits before any context exists.               *)
ServerSetup ==
    /\ prog \in ServerPrograms /\ pc = "setup"
    /\ \E r \in Outcomes("setup", {"ok"}, {"fail"}) :
        /\ pc' = IF r = "ok" THEN "loop" ELSE "exit"
        /\ FailedIf(r, {"fail"})
    /\ UNCHANGED <<prog, i, cur, total, contexts, heap, waiting, conns,
                   timed_out, ready, err>>

(* epoll_wait (lines 136 and 87): some open sockets are ready; the         *)
(* listening one while clients may still arrive.                           *)
ServerWait ==
    /\ prog \in ServerPrograms /\ pc = "loop" /\ ready = {}
    /\ \E b \in SUBSET (Live \cup (IF conns < MaxConns THEN {Listening}
                                   ELSE {})) \ {{}} :
        ready' = b
    /\ UNCHANGED <<prog, pc, i, cur, total, contexts, heap, waiting, conns,
                   timed_out, faults, err>>

(* epoll_wait returns -1 (lines 137-143 and 88-91, 121-124): the Homa      *)
(* server exits without freeing its contexts; the TCP server leaves the    *)
(* loop and runs cleanup_contexts(contexts, total_contexts).               *)
ServerWaitFail ==
    /\ prog \in ServerPrograms /\ pc = "loop" /\ ready = {}
    /\ \E r \in Outcomes("wait", {}, {"fail"}) : FailedIf(r, {"fail"})
    /\ IF prog = "tcp_server" THEN FreeSlots(total) ELSE UNCHANGED <<heap, err>>
    /\ pc' = IF prog = "tcp_server" THEN "done" ELSE "exit"
    /\ UNCHANGED <<prog, i, cur, total, contexts, waiting, conns, timed_out,
                   ready>>

(* SIGINT reaches the Homa server after signal(SIGINT, handle_quit) (line  *)
(* 134): handle_quit frees every context (73-75) and the server goes on.   *)
(* Blocked in epoll_wait, it sees -1 (EINTR) and exits (137-143).          *)
ServerSigint ==
    /\ prog = "homa_server" /\ pc \in {"loop", "store", "register"}
    /\ \E r \in Outcomes("sigint", {}, {"sigint"}) : FailedIf(r, {"sigint"})
    /\ FreeSlots(total)
    /\ pc' = IF pc = "loop" /\ ready = {} THEN "exit" ELSE pc
    /\ UNCHANGED <<prog, i, cur, total, contexts, waiting, conns, timed_out,
                   ready>>

(* The listening socket's event in the Homa server (lines 145-179): a      *)
(* request from a new client is peeled off to a socket of its own; a       *)
(* failed recvmsg or homa_peeloff frees every context and exits.  EAGAIN,  *)
(* and EISCONN from a client already peeled off, change nothing.           *)
ServerListen ==
    /\ prog = "homa_server" /\ pc = "loop" /\ Listening \in ready
    /\ ready' = ready \ {Listening}
    /\ \E r \in Outcomes("io", {"eagain", "peeled"}, {"error"}) :
        /\ pc' = CASE r = "peeled" -> "store"
                    [] r = "error" -> "exit"
                    [] OTHER -> "loop"
        /\ IF r = "error" THEN FreeSlots(total) ELSE UNCHANGED <<heap, err>>
        /\ FailedIf(r, {"error"})
    /\ UNCHANGED <<prog, i, cur, total, contexts, waiting, conns, timed_out>>

(* malloc of the peeled-off socket's context and contexts[total_contexts] *)
(* = context; total_contexts++ (lines 180-189), with no bound check.       *)
ServerStore ==
    /\ prog = "homa_server" /\ pc = "store"
    /\ heap' = [heap EXCEPT ![NewObj] = "live"]
    /\ cur' = NewObj
    /\ conns' = conns + 1
    /\ Store(NewObj)
    /\ pc' = "register"
    /\ UNCHANGED <<prog, i, waiting, timed_out, ready, faults>>

(* epoll_ctl and peeloff_setup (lines 190-207, 24-38): a failure frees     *)
(* every context and exits.  If handle_quit ran in between, the socket is *)
(* closed and epoll_ctl fails.                                             *)
ServerRegister ==
    /\ prog = "homa_server" /\ pc = "register"
    /\ \E r \in IF heap[cur] = "live" THEN Outcomes("io", {"ok"}, {"fail"})
                 ELSE {"closed"} :
        /\ pc' = IF r = "ok" THEN "loop" ELSE "exit"
        /\ IF r = "ok" THEN UNCHANGED <<heap, err>> ELSE FreeSlots(total)
        /\ FailedIf(r, {"fail"})
    /\ UNCHANGED <<prog, i, cur, total, contexts, waiting, conns, timed_out,
                   ready>>

(* A peeled-off socket's event (lines 211-219) and peeloff_sock_ops        *)
(* (40-64): requests are read and replied to until EAGAIN; a failure frees *)
(* every context and exits.  The event may come from the batch epoll_wait *)
(* returned before handle_quit freed the context: the context is read     *)
(* after free, and what follows is undefined; the model stops there.      *)
ServerPeeled ==
    /\ prog = "homa_server" /\ pc = "loop"
    /\ \E o \in ready \ {Listening} :
        /\ ready' = ready \ {o}
        /\ \E r \in IF heap[o] = "live" THEN Outcomes("io", {"ok"}, {"fail"})
                     ELSE {"freed"} :
            /\ pc' = IF r = "ok" THEN "loop" ELSE "exit"
            /\ CASE r = "ok" -> UNCHANGED <<heap, err>>
                 [] r = "fail" -> FreeSlots(total)
                 [] OTHER -> /\ err' = IF err = "none" THEN "use_after_free"
                                       ELSE err
                             /\ UNCHANGED heap
            /\ FailedIf(r, {"fail"})
    /\ UNCHANGED <<prog, i, cur, total, contexts, waiting, conns, timed_out>>

(* The listening socket's event in the TCP server (lines 94-110): accept,  *)
(* malloc, epoll_ctl (unchecked), contexts[total_contexts++] = context    *)
(* with no bound check.  A failed accept is skipped.                       *)
TcpAccept ==
    /\ prog = "tcp_server" /\ pc = "loop" /\ Listening \in ready
    /\ ready' = ready \ {Listening}
    /\ \E r \in Outcomes("io", {"ok"}, {"fail"}) :
        /\ IF r = "ok"
           THEN /\ heap' = [heap EXCEPT ![NewObj] = "live"]
                /\ conns' = conns + 1
                /\ Store(NewObj)
           ELSE UNCHANGED <<heap, conns, contexts, total, err>>
        /\ FailedIf(r, {"fail"})
    /\ UNCHANGED <<prog, pc, i, cur, waiting, timed_out>>

(* A client socket's event in the TCP server (lines 111-117) and           *)
(* handle_client (30-46): echo until EAGAIN or end of stream; on a recv    *)
(* error the socket is closed and its context freed, and the context stays *)
(* in contexts[].                                                          *)
TcpClient ==
    /\ prog = "tcp_server" /\ pc = "loop"
    /\ \E o \in ready \ {Listening} :
        /\ ready' = ready \ {o}
        /\ \E r \in Outcomes("io", {"ok"}, {"error"}) :
            /\ heap' = IF r = "error" THEN [heap EXCEPT ![o] = "freed"]
                       ELSE heap
            /\ FailedIf(r, {"error"})
    /\ UNCHANGED <<prog, pc, i, cur, total, contexts, waiting, conns,
                   timed_out, err>>

-----------------------------------------------------------------------------
ClientStep ==
    \/ ClientSetup \/ ClientStore \/ ClientEpoll \/ ClientStart
    \/ ClientWait \/ ClientStop \/ ClientRecv \/ ClientSend

ServerStep ==
    \/ ServerSetup \/ ServerWait \/ ServerWaitFail \/ ServerListen
    \/ ServerStore \/ ServerRegister \/ ServerPeeled
    \/ TcpAccept \/ TcpClient

\* The environment: the timer and the user's SIGINT.
Signal == Alarm \/ ServerSigint

Next == ClientStep \/ ServerStep \/ Signal

\* A program is one thread, scheduled while it can run; the kernel delivers
\* SIGALRM once the alarm expires.  SIGINT is the user's, never forced.
Spec == Init /\ [][Next]_vars /\ WF_vars(ClientStep) /\ WF_vars(Alarm)

-----------------------------------------------------------------------------
TypeOK ==
    /\ prog \in Programs
    /\ i \in 0 .. NumSockets
    /\ cur \in Objs \cup {Unset}
    /\ total \in Nat
    /\ contexts \in [Slots -> Objs \cup {Unset}]
    /\ heap \in [Objs -> {"none", "live", "freed"}]
    /\ waiting \in [Objs -> BOOLEAN]
    /\ conns \in 0 .. MaxConns
    /\ timed_out \in BOOLEAN
    /\ ready \subseteq Objs \cup {Listening}
    /\ faults \in 0 .. MaxFaults
    /\ err \in {"none", "wild_free", "double_free", "use_after_free",
                "overflow"}

(* Every free goes through a pointer to a live context, every context is  *)
(* freed once, no event handler reads a freed context, and no store goes  *)
(* past contexts[MAX_EVENTS]: the cleanup paths of all four programs,      *)
(* whichever call fails and whenever a signal comes.                       *)
MemorySafe == err = "none"

(* A client always ends: the alarm sets timed_out, which main's loop      *)
(* tests after each batch of events (client_tcp_1KB.c 114-118), and every *)
(* error path exits.  This requires each read of an event to return.       *)
ClientEnds == prog \in ClientPrograms => <>(pc \in {"done", "exit"})

=============================================================================
