--------------------------------- MODULE Slotd ---------------------------------
(***************************************************************************)
(* ops/slotd/webamend_slotd.py: the host's broker of agent slots.  One     *)
(* asyncio event loop runs, per connection, a handler task, a hangup task  *)
(* (the peer's EOF) and a decision task (Broker.acquire).  The connection  *)
(* is the lease.                                                           *)
(*                                                                         *)
(* `ready` is the loop's queue of callbacks: a completed future or task    *)
(* wakes who awaits it at the back of it, so other callbacks run between   *)
(* a completion and what it wakes.  Events from outside (connections, EOF, *)
(* timer, SIGHUP) come in at any point.                                    *)
(***************************************************************************)
EXTENDS Integers, FiniteSets, Sequences, SequencesExt

CONSTANTS
    Connections,    \* each asks for one slot
    Clients,        \* the site installations of the host
    ClientOf,       \* what identify answers for each connection
    None,           \* no lease
    MaxCapacity     \* bound on the capacity a SIGHUP may compute

ASSUME NoneIsNoConnection == None \notin Connections
ASSUME ClientOfIsTotal == ClientOf \in [Connections -> Clients]
ASSUME CapacityIsPositive == MaxCapacity \in Nat \ {0}

VARIABLES
    capacity,   \* Broker.capacity
    leases,     \* Broker.leases: the connection each client's lease came with
    queue,      \* Broker.queue: waiting connections, in order of arrival
    overdue,    \* connections whose deadline has passed
    promise,    \* each waiter's future
    decision,   \* each decision task
    doomed,     \* decision tasks with a cancellation pending on a done future
    handler,    \* each handler task
    gone,       \* connections the peer has closed
    hungUp,     \* connections whose hangup task is done
    ready,      \* callbacks of the event loop: <<kind, connection>>
    ticker,     \* whether the ticker task is alive
    hasty       \* history: whether a peer left before it was answered

broker == <<leases, queue, promise>>
peers  == <<gone, hasty>>
vars   == <<capacity, leases, queue, overdue, promise, decision, doomed,
            handler, gone, hungUp, ready, ticker, hasty>>

Init ==
    /\ capacity \in 1..MaxCapacity
    /\ leases = [k \in Clients |-> None]
    /\ queue = <<>>
    /\ overdue = {}
    /\ promise = [c \in Connections |-> "none"]
    /\ decision = [c \in Connections |-> "none"]
    /\ doomed = {}
    /\ handler = [c \in Connections |-> "new"]
    /\ gone = {}
    /\ hungUp = {}
    /\ ready = <<>>
    /\ ticker = FALSE
    /\ hasty = FALSE

Leased(held) == {k \in Clients : held[k] # None}

\* The elements of a sequence that are in S, in their order.
Kept(s, S) ==
    LET places == {i \in DOMAIN s : s[i] \in S}
        Place(k) == CHOOSE i \in places : Cardinality({j \in places : j <= i}) = k
    IN  [k \in 1..Cardinality(places) |-> s[Place(k)]]
Without(s, S) == Kept(s, ToSet(s) \ S)

Least(S)     == CHOOSE i \in S : \A j \in S : i <= j

-------------------------------------------------------------------------------
(* Broker.pump *)

\* A bug Room could have: one lease too many.
Room_OffByOne(held, cap) == IF cap >= Cardinality(Leased(held))
                            THEN cap + 1 - Cardinality(Leased(held)) ELSE 0

Room(held, cap) == IF cap > Cardinality(Leased(held))
                   THEN cap - Cardinality(Leased(held)) ELSE 0

\* A bug Late could have: ceilings are only checked when a waiter arrives.
Late_Never(q) == <<>>

\* _expire: the waiters whose deadline has passed.
Late(q) == Kept(q, overdue)

\* A bug Popped could have: the newest waiter is served first.
Popped_Newest(rest, n) == SubSeq(Reverse(rest), 1, n)

\* popleft, n times.
Popped(rest, n) == SubSeq(rest, 1, n)

\* set_result raises on a cancelled future: what is settled ends with the first one.
CancelledIn(s, futures) == {i \in DOMAIN s : futures[s[i]] = "cancelled"}
UpToCancelled(s, futures) ==
    IF CancelledIn(s, futures) = {} THEN s ELSE SubSeq(s, 1, Least(CancelledIn(s, futures)))

\* Expired waiters are refused; then the head of the queue is granted as long as
\* there is room and memory: measured again for each grant, it fits `fitting` more
\* agents.  When set_result raises, its waiter is already out of the queue and its
\* lease already entered.
Pump(q, held, futures, cap, fitting) ==
    LET expired == UpToCancelled(Late(q), futures)
        rest    == Without(q, ToSet(expired))
        wanted  == IF Room(held, cap) < Len(rest) THEN Room(held, cap) ELSE Len(rest)
        raised  == CancelledIn(expired, futures) # {}
        braked  == ~raised /\ fitting < wanted
        taken   == IF raised THEN 0 ELSE IF braked THEN fitting ELSE wanted
        granted == UpToCancelled(Popped(rest, taken), futures)
    IN  [queue   |-> Without(rest, ToSet(granted)),
         leases  |-> [k \in Clients |->
                        IF \E c \in ToSet(granted) : ClientOf[c] = k
                        THEN CHOOSE c \in ToSet(granted) : ClientOf[c] = k
                        ELSE held[k]],
         promise |-> [c \in Connections |->
                        IF futures[c] # "pending" THEN futures[c]
                        ELSE IF c \in ToSet(expired) THEN "refused"
                        ELSE IF c \in ToSet(granted) THEN "granted" ELSE "pending"],
         settled |-> expired \o granted,
         braked  |-> braked /\ CancelledIn(granted, futures) = {},
         raised  |-> CancelledIn(expired \o granted, futures) # {}]

\* The decision tasks a pump wakes: those that await the futures it has settled.
Woken(P) ==
    Kept(P.settled, {c \in Connections : promise[c] = "pending" /\ decision[c] = "waiting"})

Wakes(P) == [i \in 1..Len(Woken(P)) |-> <<"wake", Woken(P)[i]>>]

\* What a pump leaves behind: whom it woke comes after what was ready before.
Pumped(P, before, after) ==
    /\ queue' = P.queue
    /\ leases' = P.leases
    /\ promise' = P.promise
    /\ ready' = before \o Wakes(P) \o after

-------------------------------------------------------------------------------
(* The tasks of a connection *)

Runs(kind, c) == ready # <<>> /\ Head(ready) = <<kind, c>>

\* A bug Resume could have: the second task to finish wakes the handler again.
Resume_Always(c) == << <<"resume", c>> >>

\* A finished task wakes the handler that awaits it, once.
Resume(c) == IF <<"resume", c>> \in ToSet(ready) THEN <<>> ELSE << <<"resume", c>> >>

Decided(c, outcome) == decision' = [decision EXCEPT ![c] = outcome]

\* handle, up to asyncio.wait: both tasks are created.
Accept(c) ==
    /\ handler[c] = "new"
    /\ handler' = [handler EXCEPT ![c] = "waiting"]
    /\ ready' = Append(ready, <<"decide", c>>)
    /\ UNCHANGED <<capacity, broker, overdue, decision, doomed, peers, hungUp, ticker>>

AlreadyHolding(c) ==
    \/ leases[ClientOf[c]] # None
    \/ \E d \in ToSet(queue) : ClientOf[d] = ClientOf[c]

\* acquire refuses a client that holds or waits already, or whose projected
\* wait exceeds its ceiling.
Refuse(c) ==
    /\ Runs("decide", c)
    /\ c \notin doomed
    /\ Decided(c, "refused")
    /\ ready' = Tail(ready) \o Resume(c)
    /\ UNCHANGED <<capacity, broker, overdue, doomed, handler, peers, hungUp, ticker>>

\* A bug Enqueue could have: nobody re-reads the clock for a waiter.
Enqueue_WithoutTicker(c) ==
    /\ Runs("decide", c)
    /\ c \notin doomed
    /\ ~AlreadyHolding(c)
    /\ \E fitting \in 0..Len(queue) + 1 :
       LET P == Pump(Append(queue, c), leases, [promise EXCEPT ![c] = "pending"],
                     capacity, fitting)
       IN  /\ Decided(c, IF P.raised THEN "failed"
                         ELSE IF P.promise[c] = "granted" THEN "granted" ELSE "waiting")
           /\ Pumped(P, Tail(ready), IF decision'[c] = "waiting" THEN <<>> ELSE Resume(c))
    /\ UNCHANGED <<capacity, overdue, doomed, handler, peers, hungUp, ticker>>

\* A bug Enqueue could have: only the leases are looked at for the client.
Enqueue_Twice(c) ==
    /\ Runs("decide", c)
    /\ c \notin doomed
    /\ leases[ClientOf[c]] = None
    /\ \E fitting \in 0..Len(queue) + 1 :
       LET P == Pump(Append(queue, c), leases, [promise EXCEPT ![c] = "pending"],
                     capacity, fitting)
       IN  /\ Decided(c, IF P.raised THEN "failed"
                         ELSE IF P.promise[c] = "granted" THEN "granted" ELSE "waiting")
           /\ Pumped(P, Tail(ready), IF decision'[c] = "waiting" THEN <<>> ELSE Resume(c))
           /\ ticker' = (ticker \/ P.braked \/ decision'[c] = "waiting")
    /\ UNCHANGED <<capacity, overdue, doomed, handler, peers, hungUp>>

\* Otherwise it queues the client and pumps; what that pump raises is its own.
\* A waiter that is not granted at once has a ticker running.
Enqueue(c) ==
    /\ Runs("decide", c)
    /\ c \notin doomed
    /\ ~AlreadyHolding(c)
    /\ \E fitting \in 0..Len(queue) + 1 :
       LET P == Pump(Append(queue, c), leases, [promise EXCEPT ![c] = "pending"],
                     capacity, fitting)
       IN  /\ Decided(c, IF P.raised THEN "failed"
                         ELSE IF P.promise[c] = "granted" THEN "granted" ELSE "waiting")
           /\ Pumped(P, Tail(ready), IF decision'[c] = "waiting" THEN <<>> ELSE Resume(c))
           /\ ticker' = (ticker \/ P.braked \/ decision'[c] = "waiting")
    /\ UNCHANGED <<capacity, overdue, doomed, handler, peers, hungUp>>

\* A decision task cancelled before its first step, or with its future already
\* settled, ends as cancelled; it is not in the queue, and nothing is undone.
DoomedEnds(c) ==
    /\ Runs("decide", c) \/ Runs("wake", c)
    /\ c \in doomed
    /\ Decided(c, "cancelled")
    /\ ready' = Tail(ready) \o Resume(c)
    /\ UNCHANGED <<capacity, broker, overdue, doomed, handler, peers, hungUp, ticker>>

\* The future was cancelled: _withdraw leaves the queue, if still in it, and
\* pumps.  What that pump raises replaces the cancellation.
Withdraw(c) ==
    /\ Runs("wake", c)
    /\ promise[c] = "cancelled"
    /\ IF c \in ToSet(queue)
       THEN \E fitting \in 0..Len(queue) :
            LET P == Pump(Without(queue, {c}), leases, promise, capacity,
                          fitting)
            IN  /\ Decided(c, IF P.raised THEN "failed" ELSE "cancelled")
                /\ Pumped(P, Tail(ready), Resume(c))
                /\ ticker' = (ticker \/ P.braked)
       ELSE /\ Decided(c, "cancelled")
            /\ ready' = Tail(ready) \o Resume(c)
            /\ UNCHANGED <<broker, ticker>>
    /\ UNCHANGED <<capacity, overdue, doomed, handler, peers, hungUp>>

\* The future was settled: acquire returns its result.
Answer(c) ==
    /\ Runs("wake", c)
    /\ c \notin doomed
    /\ promise[c] \in {"granted", "refused"}
    /\ Decided(c, promise[c])
    /\ ready' = Tail(ready) \o Resume(c)
    /\ UNCHANGED <<capacity, broker, overdue, doomed, handler, peers, hungUp, ticker>>

\* The hangup task ends at the peer's EOF and wakes the handler, unless that is
\* awaiting a cancelled decision.
NoticeEof(c) ==
    /\ c \in gone \ hungUp
    /\ hungUp' = hungUp \cup {c}
    /\ ready' = IF handler[c] \in {"waiting", "serving"} THEN ready \o Resume(c) ELSE ready
    /\ UNCHANGED <<capacity, broker, overdue, decision, doomed, handler, peers, ticker>>

\* The peer left before the decision: the decision is cancelled and awaited.
\* Cancelling reaches its future only while that is pending.
GiveUp(c) ==
    /\ Runs("resume", c)
    /\ handler[c] = "waiting"
    /\ decision[c] \in {"none", "waiting"}
    /\ handler' = [handler EXCEPT ![c] = "cancelling"]
    /\ \/ /\ promise[c] = "pending"
          /\ promise' = [promise EXCEPT ![c] = "cancelled"]
          /\ ready' = Append(Tail(ready), <<"wake", c>>)
          /\ UNCHANGED doomed
       \/ /\ promise[c] # "pending"
          /\ doomed' = doomed \cup {c}
          /\ ready' = Tail(ready)
          /\ UNCHANGED promise
    /\ UNCHANGED <<capacity, leases, queue, overdue, decision, peers, hungUp, ticker>>

\* Granted and told so: the handler goes on to await the hangup.
Serve(c) ==
    /\ Runs("resume", c)
    /\ handler[c] = "waiting"
    /\ decision[c] = "granted"
    /\ c \notin gone
    /\ handler' = [handler EXCEPT ![c] = "serving"]
    /\ ready' = Tail(ready)
    /\ UNCHANGED <<capacity, broker, overdue, decision, doomed, peers, hungUp, ticker>>

\* Refused, failed, cancelled, or granted to a peer that has closed the socket:
\* then drain raises, before the try whose finally releases the lease.
Close(c) ==
    /\ Runs("resume", c)
    /\ \/ handler[c] = "cancelling"
       \/ handler[c] = "waiting" /\ decision[c] \in {"refused", "failed"}
       \/ handler[c] = "waiting" /\ decision[c] = "granted" /\ c \in gone
    /\ handler' = [handler EXCEPT ![c] = "closed"]
    /\ ready' = Tail(ready)
    /\ UNCHANGED <<capacity, broker, overdue, decision, doomed, peers, hungUp, ticker>>

\* The lease ends with its connection: release pops it and pumps.
Release(c) ==
    /\ Runs("resume", c)
    /\ handler[c] = "serving"
    /\ handler' = [handler EXCEPT ![c] = "closed"]
    /\ \E fitting \in 0..Len(queue) :
       LET P == Pump(queue, [leases EXCEPT ![ClientOf[c]] = None], promise, capacity,
                     fitting)
       IN  /\ Pumped(P, Tail(ready), <<>>)
           /\ ticker' = (ticker \/ P.braked)
    /\ UNCHANGED <<capacity, overdue, decision, doomed, peers, hungUp>>

-------------------------------------------------------------------------------
(* The rest of the daemon, and its surroundings *)

\* _tick pumps while anybody waits; an exception ends it.
Tick ==
    /\ ticker
    /\ \E fitting \in 0..Len(queue) :
       LET P == Pump(queue, leases, promise, capacity, fitting)
       IN  /\ Pumped(P, ready, <<>>)
           /\ ticker' = (~P.raised /\ P.queue # <<>>)
    /\ UNCHANGED <<capacity, overdue, decision, doomed, handler, peers, hungUp>>

\* on_hup: what compute_capacity now answers, never below one.
Hup ==
    /\ capacity' \in 1..MaxCapacity \ {capacity}
    /\ \E fitting \in 0..Len(queue) :
       LET P == Pump(queue, leases, promise, capacity', fitting)
       IN  /\ Pumped(P, ready, <<>>)
           /\ ticker' = (ticker \/ P.braked)
    /\ UNCHANGED <<overdue, decision, doomed, handler, peers, hungUp>>

DeadlinePasses(c) ==
    /\ c \in ToSet(queue) \ overdue
    /\ overdue' = overdue \cup {c}
    /\ UNCHANGED <<capacity, broker, decision, doomed, handler, peers, hungUp,
                   ready, ticker>>

\* A peer closes its socket when its run is over, or dies while it waits.
HangUp(c) ==
    /\ c \notin gone
    /\ handler[c] \in {"waiting", "serving"}
    /\ gone' = gone \cup {c}
    /\ hasty' = (hasty \/ handler[c] = "waiting")
    /\ UNCHANGED <<capacity, broker, overdue, decision, doomed, handler, hungUp,
                   ready, ticker>>

Step(c) ==
    \/ Refuse(c) \/ Enqueue(c) \/ DoomedEnds(c) \/ Withdraw(c) \/ Answer(c)
    \/ GiveUp(c) \/ Serve(c) \/ Close(c) \/ Release(c)

Next ==
    \/ Tick \/ Hup
    \/ \E c \in Connections :
        Accept(c) \/ Step(c) \/ NoticeEof(c) \/ DeadlinePasses(c) \/ HangUp(c)

Spec == Init /\ [][Next]_vars

-------------------------------------------------------------------------------
(* Properties *)

\* The types of the state, and that nobody waits or is woken twice.
TypeOK ==
    /\ capacity \in 1..MaxCapacity
    /\ {ticker, hasty} \subseteq BOOLEAN
    /\ leases \in [Clients -> Connections \cup {None}]
    /\ queue \in Seq(Connections) /\ IsInjective(queue)
    /\ {overdue, doomed, gone, hungUp} \subseteq SUBSET Connections
    /\ promise \in [Connections -> {"none", "pending", "granted", "refused", "cancelled"}]
    /\ decision \in [Connections -> {"none", "waiting", "granted", "refused", "cancelled",
                                     "failed"}]
    /\ handler \in [Connections -> {"new", "waiting", "cancelling", "serving", "closed"}]
    /\ ready \in Seq({"decide", "wake", "resume"} \X Connections) /\ IsInjective(ready)

\* Leases are only ever added within the capacity of that moment, also after a
\* SIGHUP has shrunk it below what is leased, and whatever a pump raises.
GrantsWithinCapacity ==
    [][\A k \in Clients :
        leases[k] = None /\ leases'[k] # None => Cardinality(Leased(leases')) <= capacity']_vars

\* First come, first served: whoever is granted leaves nobody behind in the
\* queue who had been waiting for longer.
FirstComeFirstServed ==
    [][\A i, j \in DOMAIN queue :
        /\ i < j
        /\ promise[queue[j]] = "pending"
        /\ promise'[queue[j]] = "granted"
        => queue[i] \notin ToSet(queue')]_vars

\* A run that was told to go holds its client's lease until it hangs up: no
\* other connection's refusal, withdrawal or release takes it away.
ServingHoldsLease ==
    \A c \in Connections : handler[c] = "serving" => leases[ClientOf[c]] = c

\* A lease belongs to a connection that is served or about to be told so.
Connected == \A k \in Clients : leases[k] # None => handler[leases[k]] \in {"waiting", "serving"}

\* As long as every peer stays until it is answered, no lease outlives its
\* connection and no waiter is left without a ticker to re-read clock and memory.
PatientPeersLeakNothing ==
    ~hasty => Connected /\ (queue # <<>> => ticker)

\* Nobody is granted a slot after its ceiling has passed: its request has been
\* given up by then.
NobodyIsGrantedLate ==
    [][\A c \in Connections :
        promise[c] = "pending" /\ promise'[c] = "granted" => c \notin overdue]_vars

\* Documented, and not so: "a client that dies is a client whose slot the kernel
\* gives back" (webamend_slotd.py).  Once the loop is idle every lease has a
\* connection.
EveryLeaseHasItsConnection ==
    ready = <<>> /\ gone = hungUp => Connected
===============================================================================
