---------------------------- MODULE BloomMatcher ----------------------------
(***************************************************************************)
(* A session of the bloom-bits matcher (core/bloombits): sections flow     *)
(* through a chain of sub-matchers, each of which asks the schedulers of   *)
(* its bits for bit vectors; a distributor hands the requests to the       *)
(* session's multiplexers, which have them served by the bloom handlers    *)
(* of the node (eth/bloombits.go).                                         *)
(*                                                                         *)
(* A bit vector is the set of the blocks of the section whose bit is set.  *)
(* The goroutines of a stage take one step from one channel operation to   *)
(* the next that depends on another goroutine.                             *)
(***************************************************************************)
EXTENDS Integers, Sequences, SequencesExt, FiniteSets

CONSTANTS
    Rules,     \* the sub-matchers: sequences of clauses, which are sequences of bits
    Size,      \* blocks of a section
    Begin, End,    \* range of blocks
    Vector,    \* [bit -> blocks whose bit is set]
    Mux,       \* the multiplexers of the session (bloomFilterThreads)
    Batch,     \* sections of a retrieval (bloomRetrievalBatch)
    Capacity,  \* of the channels
    MaxFails   \* retrievals that fail

VARIABLES
    feed,       \* next section for the source channel
    link,       \* the channels between the sub-matchers, with their partial matches
    pipe,       \* for each bit of a clause: the sections in its channels
    process,    \* [stage -> the partial matches that wait for their vectors]
    responses,  \* [bit -> [section -> "none", "wait" or "cached"]]
    dist,       \* the channel of requests
    d,          \* the distributor
    mux,        \* the multiplexers
    quit,       \* the session's quit channel is closed
    results,    \* what the user received; closed
    fails

vars == <<feed, link, pipe, process, responses, dist, d, mux, quit, results, fails>>

Stages == 1..Len(Rules)
Pipes == {<<k, i, j>> \in Stages \X (1..2) \X (1..3) : i <= Len(Rules[k]) /\ j <= Len(Rules[k][i])}
PipesOf(k) == {p \in Pipes : p[1] = k}
Bit(p) == Rules[p[1]][p[2]][p[3]]
Bits == {Bit(p) : p \in Pipes}
First == Begin \div Size
LastSection == End \div Size
Sections == First..LastSection
BlocksOf(s) == (s * Size)..(s * Size + Size - 1)

Room(ch) == Len(ch) < Capacity
\* Room in a channel whose reader holds an element while it waits for more.
RoomAndHand(ch) == Len(ch) <= Capacity

\* NewMatcher, Start and run: schedulers are reset, the goroutines start.
Init ==
    /\ feed = First
    /\ link = [k \in 1..(Len(Rules) + 1) |-> <<>>]
    /\ pipe = [p \in Pipes |-> [src |-> <<>>, pend |-> <<>>, sink |-> <<>>]]
    /\ process = [k \in Stages |-> <<>>]
    /\ responses = [b \in Bits |-> [s \in Sections |-> "none"]]
    /\ dist = <<>>
    /\ d = [requests |-> [b \in Bits |-> {}], unallocs |-> {}, allocs |-> 0, shutdown |-> FALSE,
            alive |-> TRUE]
    /\ mux = [x \in Mux |-> [pc |-> "alloc", bit |-> 0, sections |-> {}, missing |-> {}, err |-> FALSE]]
    /\ quit = FALSE
    /\ results = [out |-> <<>>, closed |-> FALSE]
    /\ fails = 0

-----------------------------------------------------------------------------
\* run feeds the sections of the range, every block a match.
Feed ==
    /\ ~quit /\ feed <= LastSection /\ Room(link[1])
    /\ link' = [link EXCEPT ![1] = Append(@, <<feed, BlocksOf(feed)>>)]
    /\ feed' = feed + 1
    /\ UNCHANGED <<pipe, process, responses, dist, d, mux, quit, results, fails>>

\* subMatch's first goroutine passes the section on to the schedulers of its bits.
Multiplexed(k) ==
    /\ ~quit /\ link[k] # <<>> /\ RoomAndHand(process[k])
    /\ \A p \in PipesOf(k) : Room(pipe[p].src)
    /\ pipe' = [p \in Pipes |-> IF p \in PipesOf(k)
                                THEN [pipe[p] EXCEPT !.src = Append(@, Head(link[k])[1])] ELSE pipe[p]]
    /\ process' = [process EXCEPT ![k] = Append(@, Head(link[k]))]
    /\ link' = [link EXCEPT ![k] = Tail(@)]
    /\ UNCHANGED <<feed, responses, dist, d, mux, quit, results, fails>>

\* scheduleRequests takes a section; one that nobody asked for is requested, and the
\* deliveries are told to expect it.
Unique(b, s) == responses[b][s] = "none"

Schedule(p) ==
    /\ ~quit /\ pipe[p].src # <<>> /\ RoomAndHand(pipe[p].pend)
    /\ LET s == Head(pipe[p].src)
           b == Bit(p)
       IN  /\ pipe' = [pipe EXCEPT ![p].src = Tail(@), ![p].pend = Append(@, s)]
           /\ IF Unique(b, s)
              THEN /\ Room(dist)
                   /\ dist' = Append(dist, <<b, s>>)
                   /\ responses' = [responses EXCEPT ![b][s] = IF @ = "none" THEN "wait" ELSE @]
              ELSE UNCHANGED <<dist, responses>>
    /\ UNCHANGED <<feed, link, process, d, mux, quit, results, fails>>

\* scheduleDeliveries waits for the vector of the next section.
Deliver(p) ==
    /\ ~quit /\ pipe[p].pend # <<>> /\ Room(pipe[p].sink)
    /\ responses[Bit(p)][Head(pipe[p].pend)] = "cached"
    /\ pipe' = [pipe EXCEPT ![p].pend = Tail(@), ![p].sink = Append(@, Head(pipe[p].pend))]
    /\ UNCHANGED <<feed, link, process, responses, dist, d, mux, quit, results, fails>>

\* subMatch's second goroutine: AND over the bits of a clause, OR over the clauses, AND with
\* what came in; a section without a match goes no further.  The vector is that of the
\* section that the scheduler delivered.
Clause(k, i) == {n \in 0..(Size - 1) : \A j \in 1..Len(Rules[k][i]) :
                   Head(pipe[<<k, i, j>>].sink) * Size + n \in Vector[Rules[k][i][j]]}
Merged(k) ==
    LET in == Head(process[k])
    IN  {n \in in[2] : \E i \in 1..Len(Rules[k]) : n - in[1] * Size \in Clause(k, i)}

Gather(k) ==
    /\ ~quit /\ process[k] # <<>> /\ \A p \in PipesOf(k) : pipe[p].sink # <<>>
    /\ \/ /\ Merged(k) = {} /\ UNCHANGED link
       \/ /\ Merged(k) # {} /\ Room(link[k + 1])
          /\ link' = [link EXCEPT ![k + 1] = Append(@, <<Head(process[k])[1], Merged(k)>>)]
    /\ process' = [process EXCEPT ![k] = Tail(@)]
    /\ pipe' = [p \in Pipes |-> IF p \in PipesOf(k) THEN [pipe[p] EXCEPT !.sink = Tail(@)] ELSE pipe[p]]
    /\ UNCHANGED <<feed, responses, dist, d, mux, quit, results, fails>>

\* Start's goroutine gives the user the matches of a section that are in the range.
Result ==
    /\ ~quit /\ link[Len(Rules) + 1] # <<>>
    /\ LET in == Head(link[Len(Rules) + 1])
           all == [i \in 1..Size |-> in[1] * Size + i - 1]
       IN  results' = [results EXCEPT !.out = @ \o
                           SelectSeq(all, LAMBDA n : n \in in[2] /\ Begin <= n /\ n <= End)]
    /\ link' = [link EXCEPT ![Len(Rules) + 1] = Tail(@)]
    /\ UNCHANGED <<feed, pipe, process, responses, dist, d, mux, quit, fails>>

\* The channels are closed one after the other; the last is the user's.
Drained ==
    /\ feed > LastSection /\ \A k \in DOMAIN link : link[k] = <<>>
    /\ \A k \in Stages : process[k] = <<>>
CloseResults ==
    /\ (Drained \/ quit) /\ ~results.closed
    /\ results' = [results EXCEPT !.closed = TRUE]
    /\ UNCHANGED <<feed, link, pipe, process, responses, dist, d, mux, quit, fails>>

\* indexedLogs closes the session: the results ended, or its context did.
CloseSession ==
    /\ ~quit
    /\ quit' = TRUE
    /\ UNCHANGED <<feed, link, pipe, process, responses, dist, d, mux, results, fails>>

-----------------------------------------------------------------------------
\* distributor returns once the session has ended and nothing is allocated.
Ended(e) == IF e.shutdown /\ e.allocs = 0 THEN [e EXCEPT !.alive = FALSE] ELSE e

\* assign gives the bit to a multiplexer that waits in allocateRetrieval, or keeps it.
Waiting == {x \in Mux : mux[x].pc = "alloc"}
Assign(e, m, b) ==
    \/ \E x \in Waiting :
          /\ d' = [e EXCEPT !.allocs = @ + 1]
          /\ mux' = [m EXCEPT ![x].pc = "count", ![x].bit = b]
    \/ /\ d' = Ended([e EXCEPT !.unallocs = @ \cup {b}])
       /\ mux' = m

\* distributor: a request.
Request ==
    /\ d.alive /\ dist # <<>>
    /\ LET b == Head(dist)[1]
           e == [d EXCEPT !.requests[b] = @ \cup {Head(dist)[2]}]
       IN  IF d.requests[b] = {} THEN Assign(e, mux, b) ELSE d' = e /\ UNCHANGED mux
    /\ dist' = Tail(dist)
    /\ UNCHANGED <<feed, link, pipe, process, responses, quit, results, fails>>

\* distributor: a multiplexer comes for a bit, and gets the one with the lowest section.
Lowest(S) == CHOOSE s \in S : \A t \in S : s <= t
Allocate(x) ==
    /\ d.alive /\ d.unallocs # {} /\ x \in Waiting
    /\ \E b \in d.unallocs :
          /\ \A c \in d.unallocs : Lowest(d.requests[b]) <= Lowest(d.requests[c])
          /\ d' = [d EXCEPT !.unallocs = @ \ {b}, !.allocs = @ + 1]
          /\ mux' = [mux EXCEPT ![x].pc = "count", ![x].bit = b]
    /\ UNCHANGED <<feed, link, pipe, process, responses, dist, quit, results, fails>>

\* Multiplex: pendingSections; with less than a batch it waits, unless the session ends.
Count(x) ==
    /\ mux[x].pc = "count" /\ (d.alive \/ quit)
    /\ \/ mux' = [mux EXCEPT ![x].pc = "take"]
       \/ /\ quit
          /\ mux' = [mux EXCEPT ![x].pc = "abort"]
    /\ UNCHANGED <<feed, link, pipe, process, responses, dist, d, quit, results, fails>>

\* allocateSections, for a batch or (aborting) for none: what is left of the bit's requests
\* goes to someone else.  With the session ending it may also return nothing.
Chosen(S, n) == {s \in S : Cardinality({t \in S : t < s}) < n}
\* (A variant that leaves the rest to whoever comes.)
Dropped(e, m, b) == d' = e /\ mux' = m
Reassign(e, m, b) == IF e.requests[b] # {} THEN Assign(e, m, b) ELSE d' = e /\ mux' = m

Take(x) ==
    /\ mux[x].pc \in {"take", "abort"}
    /\ LET n == IF mux[x].pc = "take" THEN Batch ELSE 0
           b == mux[x].bit
           took == Chosen(d.requests[b], n)
           next == IF mux[x].pc = "take" THEN "serve" ELSE "deliver"
       IN  \/ /\ d.alive
              /\ Reassign([d EXCEPT !.requests[b] = @ \ took],
                          [mux EXCEPT ![x].pc = next, ![x].sections = took], b)
           \/ /\ quit
              /\ mux' = [mux EXCEPT ![x].pc = next, ![x].sections = {}]
              /\ UNCHANGED d
    /\ UNCHANGED <<feed, link, pipe, process, responses, dist, quit, results, fails>>

\* A bloom handler serves the request, or fails for some section (startBloomHandlers); when
\* the session ends, nothing was retrieved.
Serve(x) ==
    /\ mux[x].pc = "serve"
    /\ \/ mux' = [mux EXCEPT ![x].pc = "deliver", ![x].missing = {}] /\ UNCHANGED fails
       \/ /\ fails < MaxFails /\ fails' = fails + 1
          /\ \E s \in mux[x].sections :
                mux' = [mux EXCEPT ![x].pc = "deliver", ![x].missing = {s}, ![x].err = TRUE]
       \/ /\ quit /\ UNCHANGED fails
          /\ mux' = [mux EXCEPT ![x].pc = "deliver", ![x].missing = mux[x].sections]
    /\ UNCHANGED <<feed, link, pipe, process, responses, dist, d, quit, results>>

\* deliverSections, which waits for the distributor alone: complete sections go to the
\* scheduler, missing ones are requested again.  An aborted multiplexer returns.
Delivered(x) ==
    /\ mux[x].pc = "deliver" /\ d.alive
    /\ LET b == mux[x].bit
           missing == mux[x].missing
           e == [d EXCEPT !.allocs = @ - 1, !.requests[b] = @ \cup missing]
           after == IF mux[x].err THEN "close"
                    ELSE IF quit /\ missing = mux[x].sections THEN "end" ELSE "alloc"
           m == [mux EXCEPT ![x].pc = after, ![x].sections = {}, ![x].missing = {}]
       IN  /\ responses' = [responses EXCEPT ![b] = [s \in Sections |->
                               IF s \in mux[x].sections \ missing /\ @[s] = "wait" THEN "cached" ELSE @[s]]]
           /\ IF missing # {} /\ d.requests[b] = {}
              THEN Assign(e, m, b)
              ELSE d' = Ended(e) /\ mux' = m
    /\ UNCHANGED <<feed, link, pipe, process, dist, quit, results, fails>>

\* Multiplex ends the session on an error: Close tells the goroutines of the session and waits
\* for them, whoever called it first.  Then it looks for the next bit.
CloseErr(x) ==
    /\ mux[x].pc = "close"
    /\ quit' = TRUE
    /\ mux' = [mux EXCEPT ![x].pc = "closing"]
    /\ UNCHANGED <<feed, link, pipe, process, responses, dist, d, results, fails>>

CloseReturns(x) ==
    /\ mux[x].pc = "closing" /\ ~d.alive /\ results.closed
    /\ mux' = [mux EXCEPT ![x].pc = "alloc"]
    /\ UNCHANGED <<feed, link, pipe, process, responses, dist, d, quit, results, fails>>

\* allocateRetrieval, the session has ended.
MuxEnds(x) ==
    /\ mux[x].pc = "alloc" /\ quit
    /\ mux' = [mux EXCEPT ![x].pc = "end"]
    /\ UNCHANGED <<feed, link, pipe, process, responses, dist, d, quit, results, fails>>

\* distributor hears of the end of the session.
Shutdown ==
    /\ quit /\ d.alive /\ ~d.shutdown
    /\ d' = Ended([d EXCEPT !.shutdown = TRUE])
    /\ UNCHANGED <<feed, link, pipe, process, responses, dist, mux, quit, results, fails>>

PipelineStep ==
    \/ Feed \/ Result \/ CloseResults
    \/ \E k \in Stages : Multiplexed(k) \/ Gather(k)
    \/ \E p \in Pipes : Schedule(p) \/ Deliver(p)
MuxStep(x) ==
    \/ Count(x) \/ Take(x) \/ Serve(x) \/ Delivered(x) \/ Allocate(x)
    \/ CloseErr(x) \/ CloseReturns(x) \/ MuxEnds(x)
DistStep == Request \/ Shutdown

Next == PipelineStep \/ CloseSession \/ DistStep \/ \E x \in Mux : MuxStep(x)

Spec == Init /\ [][Next]_vars

-----------------------------------------------------------------------------
\* The user gets the blocks of the range that match, each once and in order; when the channel
\* is closed and the session had not ended, all of them.
Matches == SelectSeq([i \in 1..(End + 1 - Begin) |-> Begin + i - 1],
    LAMBDA n : \A k \in Stages : \E i \in 1..Len(Rules[k]) :
        \A j \in 1..Len(Rules[k][i]) : n \in Vector[Rules[k][i][j]])
Right == IsPrefix(results.out, Matches) /\ (Drained => results.out = Matches)

\* Requests of a bit are in one hand: a bit that nobody took is waiting for a multiplexer or
\* was given to exactly one, which is yet to take them; a bit that waits has requests (the
\* distributor looks at the first of them).
Holders(b) == {x \in Mux : mux[x].pc \in {"count", "take"} /\ mux[x].bit = b}
OneHand == \A b \in Bits :
    /\ b \in d.unallocs => d.requests[b] # {}
    /\ ~quit => Cardinality(Holders(b)) + (IF b \in d.unallocs THEN 1 ELSE 0)
                = (IF d.requests[b] # {} THEN 1 ELSE 0)

\* A multiplexer that owes a delivery has a distributor to give it to.
NotAbandoned == \A x \in Mux :
    mux[x].pc \in {"count", "take", "abort", "serve", "deliver"} => d.alive

Safety == Right /\ OneHand /\ NotAbandoned

\* The matches end, and after the end of the session its goroutines do.
Owed == ~results.closed \/ (quit /\ (d.alive \/ \E x \in Mux : mux[x].pc # "end"))
SessionEnds == []<>~Owed
=============================================================================
