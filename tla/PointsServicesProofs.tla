------------------------ MODULE PointsServicesProofs ------------------------
(***************************************************************************)
(* What the points services promise, for every value of the constants: how  *)
(* old a board a reader may see, and what a board and a snapshot may leave  *)
(* out.  A behaviour follows one service; the others rest in their initial  *)
(* states, so each invariant is of the state of one of them.                *)
(***************************************************************************)
EXTENDS PointsServices, SumsProofs, SequenceTheorems, TLAPS

----------------------------------------------------------------------------
(* The age of a board *)

\* a stored answer is as old as its board, and an entry of the CDN carries its
\* board no further than the two budgets together
AgeInv ==
  /\ \E t \in 0..serving!NoBoard : last = [at |-> t, age |-> t]
  /\ edge \in [age : Nat, fresh : Nat, swr : Nat]
  /\ edge.fresh + edge.swr > 0 => edge.age + edge.fresh + edge.swr <= serving!Longest
  /\ serving!VisibleAgeBounded

\* the durations of the code, and the two budgets
LEMMA BudgetsAre ==
  /\ Fresh \in Nat \ {0} /\ StaleIfError \in Nat \ {0} /\ Fresh <= StaleIfError
  /\ EdgeFresh \in Nat \ {0} /\ EdgeSwr \in Nat \ {0} /\ EdgeStale \in Nat \ {0}
  /\ serving!Longest \in Nat
  /\ (Fresh - 1) + EdgeFresh + EdgeSwr <= serving!Longest
  /\ (StaleIfError - 1) + EdgeStale <= serving!Longest
  /\ serving!Longest < serving!Forgotten
  /\ serving!Forgotten \in Nat /\ serving!NoBoard = serving!Forgotten + 1
<1>1. /\ Fresh \in Nat \ {0} /\ StaleIfError \in Nat \ {0} /\ Fresh <= StaleIfError
      /\ EdgeFresh \in Nat \ {0} /\ EdgeSwr \in Nat \ {0} /\ EdgeStale \in Nat \ {0}
  BY ServicesOK DEF serving!DurationsOK
<1> QED
  BY <1>1 DEF serving!Longest, serving!Forgotten, serving!NoBoard

LEMMA InitAge == Init => AgeInv
<1> SUFFICES ASSUME Init PROVE AgeInv
  OBVIOUS
<1>1. /\ last = serving!NoAnswer /\ edge = serving!EmptyEdge
      /\ outcome = [c \in Clients |-> serving!Nothing]
  BY DEF Init, serving!Init, serving!AtRest
<1>2. last = [at |-> serving!NoBoard, age |-> serving!NoBoard]
  BY <1>1 DEF serving!NoAnswer
<1>3. serving!NoBoard \in 0..serving!NoBoard
  BY BudgetsAre
<1>4. edge \in [age : Nat, fresh : Nat, swr : Nat] /\ edge.fresh + edge.swr = 0
  BY <1>1, BudgetsAre DEF serving!EmptyEdge
<1>5. serving!VisibleAgeBounded
  BY <1>1 DEF serving!VisibleAgeBounded, serving!Nothing
<1> QED
  BY <1>2, <1>3, <1>4, <1>5 DEF AgeInv

\* an answer of a board young enough is one a reader may see
LEMMA SayKeepsAge ==
  ASSUME serving!VisibleAgeBounded, NEW askers, NEW k, NEW a,
         k \in {"board", "stale"} => a < serving!Longest,
         outcome' = serving!Say(askers, [kind |-> k, age |-> a])
  PROVE  serving!VisibleAgeBounded'
BY DEF serving!VisibleAgeBounded, serving!Say

\* reuse a fresh answer, share a load or start one
LEMMA ServeAge ==
  ASSUME AgeInv, NEW c, serving!Serve(c)
  PROVE  AgeInv'
<1>1. PICK t \in 0..serving!NoBoard : last = [at |-> t, age |-> t]
  BY DEF AgeInv
<1>2. CASE serving!Reusable
  <2>1. /\ outcome' = serving!Say({c}, [kind |-> "board", age |-> t])
        /\ edge' = [age |-> t, fresh |-> EdgeFresh, swr |-> EdgeSwr]
        /\ last' = last
    BY <1>1, <1>2 DEF serving!Serve, serving!Keep
  <2>2. t \in Nat /\ t < Fresh
    BY <1>1, <1>2, BudgetsAre DEF serving!Reusable
  <2>3. t < serving!Longest /\ t + EdgeFresh + EdgeSwr <= serving!Longest
    BY <2>2, BudgetsAre
  <2>4. serving!VisibleAgeBounded'
    BY <2>1, <2>3, SayKeepsAge DEF AgeInv
  <2>5. /\ edge' \in [age : Nat, fresh : Nat, swr : Nat]
        /\ edge'.age + edge'.fresh + edge'.swr <= serving!Longest
    BY <2>1, <2>2, <2>3, BudgetsAre
  <2> QED
    BY <1>1, <2>1, <2>4, <2>5 DEF AgeInv, serving!Longest, serving!NoBoard, serving!Forgotten
<1>3. CASE ~serving!Reusable
  BY <1>3 DEF serving!Serve, AgeInv, serving!VisibleAgeBounded, serving!Longest, serving!NoBoard,
              serving!Forgotten
<1> QED
  BY <1>2, <1>3

\* a reader the CDN answers from an entry that is still fresh, or stale and allowed
LEMMA EdgeAge ==
  ASSUME AgeInv, NEW c, serving!FromEdge(c) \/ serving!FromEdgeStale(c)
  PROVE  AgeInv'
<1>1. /\ edge.fresh + edge.swr > 0
      /\ outcome' = serving!Say({c}, [kind |-> "board", age |-> edge.age])
      /\ last' = last /\ edge' = edge
  BY DEF serving!FromEdge, serving!FromEdgeStale, AgeInv
<1>2. edge.age < serving!Longest
  BY <1>1, BudgetsAre DEF AgeInv
<1>3. serving!VisibleAgeBounded'
  BY <1>1, <1>2, SayKeepsAge DEF AgeInv
<1> QED
  BY <1>1, <1>3 DEF AgeInv, serving!Longest, serving!NoBoard, serving!Forgotten

LEMMA LoadAge ==
  ASSUME AgeInv, serving!LoadEnds
  PROVE  AgeInv'
<1>1. PICK t \in 0..serving!NoBoard : last = [at |-> t, age |-> t]
  BY DEF AgeInv
<1>2. CASE serving!LoadSucceeds
  <2>1. /\ outcome' = serving!Say(serving!Sharers, [kind |-> "board", age |-> 0])
        /\ edge' = [age |-> 0, fresh |-> EdgeFresh, swr |-> EdgeSwr]
        /\ last' = [at |-> 0, age |-> 0]
    BY <1>2 DEF serving!LoadSucceeds, serving!Keep
  <2>2. 0 < serving!Longest /\ 0 + EdgeFresh + EdgeSwr <= serving!Longest /\ 0 \in 0..serving!NoBoard
    BY BudgetsAre
  <2>3. serving!VisibleAgeBounded'
    BY <2>1, <2>2, SayKeepsAge DEF AgeInv
  <2>4. /\ edge' \in [age : Nat, fresh : Nat, swr : Nat]
        /\ edge'.age + edge'.fresh + edge'.swr <= serving!Longest
    BY <2>1, <2>2, BudgetsAre
  <2> QED
    BY <2>1, <2>2, <2>3, <2>4 DEF AgeInv, serving!Longest, serving!NoBoard, serving!Forgotten
<1>3. CASE serving!LoadDisabled
  <2>1. /\ outcome' = serving!Say(serving!Sharers, [kind |-> "disabled", age |-> serving!NoBoard])
        /\ last' = last /\ edge' = edge
    BY <1>3 DEF serving!LoadDisabled
  <2>2. serving!VisibleAgeBounded'
    BY <2>1, SayKeepsAge DEF AgeInv
  <2> QED
    BY <2>1, <2>2 DEF AgeInv, serving!Longest, serving!NoBoard, serving!Forgotten
<1>4. ASSUME NEW status \in {"502", "503"}, serving!LoadFails(status)
      PROVE  AgeInv'
  <2>1. last' = last
    BY <1>4 DEF serving!LoadFails, serving!AfterFailure
  <2>2. CASE serving!StandIn
    <3>1. /\ outcome' = serving!Say(serving!Sharers, [kind |-> "stale", age |-> t])
          /\ edge' = [age |-> t, fresh |-> EdgeStale, swr |-> 0]
      BY <1>1, <1>4, <2>2 DEF serving!LoadFails, serving!Keep
    <3>2. t \in Nat /\ t < StaleIfError
      BY <1>1, <2>2, BudgetsAre DEF serving!StandIn
    <3>3. t < serving!Longest /\ t + EdgeStale + 0 <= serving!Longest
      BY <3>2, BudgetsAre
    <3>4. serving!VisibleAgeBounded'
      BY <3>1, <3>3, SayKeepsAge DEF AgeInv
    <3>5. /\ edge' \in [age : Nat, fresh : Nat, swr : Nat]
          /\ edge'.age + edge'.fresh + edge'.swr <= serving!Longest
      BY <3>1, <3>2, <3>3, BudgetsAre
    <3> QED
      BY <1>1, <2>1, <3>4, <3>5 DEF AgeInv, serving!Longest, serving!NoBoard, serving!Forgotten
  <2>3. CASE ~serving!StandIn
    <3>1. /\ outcome' = serving!Say(serving!Sharers, [kind |-> status, age |-> serving!NoBoard])
          /\ edge' = edge
      BY <1>4, <2>3 DEF serving!LoadFails
    <3>2. serving!VisibleAgeBounded'
      BY <3>1, SayKeepsAge DEF AgeInv
    <3> QED
      BY <2>1, <3>1, <3>2 DEF AgeInv, serving!Longest, serving!NoBoard, serving!Forgotten
  <2> QED
    BY <2>2, <2>3
<1> QED
  BY <1>2, <1>3, <1>4 DEF serving!LoadEnds

\* time ages the answer and the entry alike
LEMMA TickAge ==
  ASSUME AgeInv, serving!Tick
  PROVE  AgeInv'
<1>1. PICK t \in 0..serving!NoBoard : last = [at |-> t, age |-> t]
  BY DEF AgeInv
<1>2. PICK u \in 0..serving!NoBoard : last' = [at |-> u, age |-> u]
  <2>1. CASE last = serving!NoAnswer
    BY <1>1, <2>1 DEF serving!Tick
  <2>2. CASE last # serving!NoAnswer
    <3>1. last' = [at |-> serving!Older(t), age |-> serving!Older(t)]
      BY <1>1, <2>2 DEF serving!Tick
    <3>2. serving!Older(t) \in 0..serving!NoBoard
      BY <1>1, BudgetsAre DEF serving!Older
    <3> QED
      BY <3>1, <3>2
  <2> QED
    BY <2>1, <2>2
<1>3. PICK a \in Nat, f \in Nat, w \in Nat : edge = [age |-> a, fresh |-> f, swr |-> w]
  BY DEF AgeInv
<1>4. /\ edge' \in [age : Nat, fresh : Nat, swr : Nat]
      /\ edge'.fresh + edge'.swr > 0 => edge'.age + edge'.fresh + edge'.swr <= serving!Longest
  <2>1. CASE f + w = 0
    BY <1>3, <2>1, BudgetsAre DEF serving!Tick, serving!EmptyEdge
  <2>2. CASE f + w > 0
    <3>1. a + f + w <= serving!Longest
      BY <1>3, <2>2 DEF AgeInv
    <3>2. serving!Older(a) = a + 1
      BY <1>3, <2>2, <3>1, BudgetsAre DEF serving!Older
    <3>3. edge' = [age |-> a + 1, fresh |-> IF f > 0 THEN f - 1 ELSE 0, swr |-> IF f > 0 THEN w ELSE w - 1]
      BY <1>3, <2>2, <3>2 DEF serving!Tick
    <3>4. CASE f > 0
      BY <1>3, <3>1, <3>3, <3>4, BudgetsAre
    <3>5. CASE f = 0
      BY <1>3, <2>2, <3>1, <3>3, <3>5, BudgetsAre
    <3> QED
      BY <3>4, <3>5
  <2> QED
    BY <2>1, <2>2
<1>5. serving!VisibleAgeBounded'
  BY DEF serving!Tick, serving!VisibleAgeBounded, serving!Nothing
<1> QED
  BY <1>2, <1>4, <1>5 DEF AgeInv, serving!Longest, serving!NoBoard, serving!Forgotten

\* However an answer is reused, stands in or is kept by the CDN of its own route, no reader
\* of /api/points/leaderboard sees a board older than the budgets of the code together
\* (servePointsLeaderboard). The caches of the relay that reads this route come on top.
THEOREM NoReaderSeesOlder == (Spec => []VisibleAgeBounded) /\ (FairSpec => []VisibleAgeBounded)
<1>1. AgeInv /\ [Next \/ FairOutageEnds]_vars => AgeInv'
  <2> SUFFICES ASSUME AgeInv, [Next \/ FairOutageEnds]_vars PROVE AgeInv'
    OBVIOUS
  <2>1. CASE UNCHANGED servingVars
    BY <2>1 DEF servingVars, AgeInv, serving!VisibleAgeBounded, serving!Longest, serving!NoBoard,
                serving!Forgotten
  <2>2. CASE serving!Next
    <3>1. ASSUME NEW c \in Clients, serving!Request(c)
          PROVE  AgeInv'
      BY <3>1, ServeAge DEF serving!Request
    <3>2. ASSUME NEW c \in Clients, serving!FromEdge(c) \/ serving!FromEdgeStale(c)
          PROVE  AgeInv'
      BY <3>2, EdgeAge
    <3>3. ASSUME NEW c \in Clients, serving!RefuseParameters(c)
          PROVE  AgeInv'
      <4>1. /\ outcome' = serving!Say({c}, [kind |-> "400", age |-> serving!NoBoard])
            /\ last' = last /\ edge' = edge
        BY <3>3 DEF serving!RefuseParameters
      <4>2. serving!VisibleAgeBounded'
        BY <4>1, SayKeepsAge DEF AgeInv
      <4> QED
        BY <4>1, <4>2 DEF AgeInv, serving!Longest, serving!NoBoard, serving!Forgotten
    <3>4. CASE serving!Revalidate
      BY <3>4, ServeAge DEF serving!Revalidate
    <3>5. CASE serving!LoadEnds
      BY <3>5, LoadAge
    <3>6. CASE serving!Tick
      BY <3>6, TickAge
    <3> QED
      BY <2>2, <3>1, <3>2, <3>3, <3>4, <3>5, <3>6 DEF serving!Next, serving!LoadEnds
  <2> QED
    BY <2>1, <2>2 DEF Next, DiscoveryStep, MirrorStep, RankingStep, ServingStep,
                          FairOutageEnds, vars
<1>2. AgeInv => VisibleAgeBounded
  BY DEF AgeInv, VisibleAgeBounded
<1> QED
  BY <1>1, <1>2, InitAge, PTL DEF Spec, FairSpec

----------------------------------------------------------------------------
(* The block ranges of a chunk *)

\* how many logs a range is known to hold: a number, or the count of its events
Counts == Int \cup {discovery!Cardinality(discovery!Events(b[1], b[2])) : b \in Nat \X Nat}
BlockRange == {g \in [from : Nat, to : Nat, atLeast : Counts] : g.from <= g.to}

\* the ranges still to be read, as a set
LEMMA TailRange ==
  ASSUME NEW S, NEW q \in Seq(S), q # <<>>
  PROVE  Head(q) \in S /\ Tail(q) \in Seq(S) /\ Range(q) = {Head(q)} \cup Range(Tail(q))
<1>1. /\ Head(q) \in S /\ Tail(q) \in Seq(S) /\ Len(Tail(q)) = Len(q) - 1
      /\ \A i \in 1..Len(Tail(q)) : Tail(q)[i] = q[i + 1]
      /\ Len(q) \in Nat /\ Len(q) # 0 /\ Head(q) = q[1]
  BY HeadTailProperties, LenProperties, EmptySeq
<1>2. Range(q) = {q[i] : i \in 1..Len(q)} /\ Range(Tail(q)) = {Tail(q)[i] : i \in 1..Len(Tail(q))}
  BY <1>1, RangeOfSeq, LenProperties DEF Range
<1>3. ASSUME NEW i \in 1..Len(q)
      PROVE  q[i] = Head(q) \/ \E j \in 1..Len(Tail(q)) : q[i] = Tail(q)[j]
  <2>1. CASE i = 1
    BY <1>1, <2>1
  <2>2. CASE i # 1
    <3>1. i - 1 \in 1..Len(Tail(q)) /\ (i - 1) + 1 = i
      BY <1>1, <2>2
    <3> QED
      BY <1>1, <3>1
  <2> QED
    BY <2>1, <2>2
<1>4. ASSUME NEW j \in 1..Len(Tail(q))
      PROVE  \E i \in 1..Len(q) : q[i] = Tail(q)[j]
  <2>1. j + 1 \in 1..Len(q)
    BY <1>1
  <2> QED
    BY <1>1, <2>1
<1>5. 1 \in 1..Len(q)
  BY <1>1
<1> QED
  BY <1>1, <1>2, <1>3, <1>4, <1>5

LEMMA RangeOne ==
  ASSUME NEW S, NEW x \in S
  PROVE  <<x>> \in Seq(S) /\ Range(<<x>>) = {x}
<1>1. <<x>> \in Seq(S) /\ Len(<<x>>) = 1
  OBVIOUS
<1>2. Range(<<x>>) = {<<x>>[i] : i \in 1..1}
  BY <1>1, LenProperties DEF Range
<1> QED
  BY <1>1, <1>2

LEMMA RangeTwo ==
  ASSUME NEW S, NEW x \in S, NEW y \in S
  PROVE  <<x, y>> \in Seq(S) /\ Range(<<x, y>>) = {x, y}
<1>1. <<x, y>> \in Seq(S) /\ Len(<<x, y>>) = 2
  OBVIOUS
<1>2. Range(<<x, y>>) = {<<x, y>>[i] : i \in 1..2}
  BY <1>1, LenProperties DEF Range
<1> QED
  BY <1>1, <1>2

LEMMA RangeNone == Range(<<>>) = {}
  BY DEF Range

----------------------------------------------------------------------------
(* The discovery and the chunk a load scans *)

DiscoveryRecord == [live : BOOLEAN, gen : Nat, scannedTo : 0..Tip, wallets : SUBSET Wallets, short : BOOLEAN]
LoadRecord ==
  [pc : {"idle", "asOf", "queued", "scanning", "onchain"}, asOf : 0..Tip, left : Int, gen : Nat,
   to : Nat, todo : Seq(BlockRange), splits : Int, got : SUBSET Wallets, cut : BOOLEAN,
   seen : SUBSET Wallets]

\* the first block of the chunk after what a discovery has scanned
ChunkFrom(d) == IF d.scannedTo = 0 THEN Deployment ELSE d.scannedTo + 1

\* a discovery knows the wallets of the blocks it has scanned, all of them
\* unless it committed a cut answer
DiscoveryOK(d) ==
  /\ d.scannedTo # 0 => Deployment <= d.scannedTo
  /\ d.wallets \subseteq discovery!NamedTo(d.scannedTo)
  /\ ~d.short => discovery!NamedTo(d.scannedTo) \subseteq d.wallets
  /\ ~d.live => d.scannedTo = 0 /\ d.wallets = {} /\ ~d.short

\* the chunk of a load goes on where the discovery ends; of each of its blocks
\* the load has the wallets, or has still to read a range that holds it
ChunkOK(ld, d) ==
  /\ ChunkFrom(d) <= ld.to /\ ld.to <= Tip
  /\ \A g \in Range(ld.todo) : ChunkFrom(d) <= g.from /\ g.to <= ld.to
  /\ ld.got \subseteq UNION {Named[k] : k \in ChunkFrom(d)..ld.to}
  /\ ~ld.cut => \A k \in ChunkFrom(d)..ld.to :
                  Named[k] \subseteq ld.got \/ \E g \in Range(ld.todo) : k \in g.from..g.to

\* what the constants of the discovery are
LEMMA ChainIs ==
  /\ Deployment \in Nat \ {0} /\ Tip \in Nat /\ Deployment <= Tip
  /\ discovery!Blocks = Deployment..Tip
  /\ \A k \in Deployment..Tip : Named[k] \subseteq Wallets
  /\ \A k \in Deployment..Tip : Held[k] \subseteq Wallets
  /\ LogChunk \in Nat \ {0} /\ LogLimit \in Nat \ {0}
  /\ MaxSplits \in Nat /\ Budget \in Nat /\ Backoff \in Nat /\ MaxShort \in Nat
BY ServicesOK DEF discovery!ConstantsOK, discovery!Blocks

LEMMA NamedToNothing == discovery!NamedTo(0) = {}
<1>1. Deployment..0 = {}
  BY ChainIs
<1> QED
  BY <1>1 DEF discovery!NamedTo

\* the wallets of a range's events are those its blocks name
LEMMA EventsName ==
  ASSUME NEW from \in Nat, NEW to \in Nat, Deployment <= from, to <= Tip
  PROVE  /\ \A k \in from..to : Named[k] \subseteq discovery!WalletsOf(discovery!Events(from, to))
         /\ \A events \in SUBSET discovery!Events(from, to) :
              discovery!WalletsOf(events) \subseteq UNION {Named[k] : k \in from..to}
<1>1. (from..to) \cap discovery!Blocks = from..to
  BY ChainIs
<1>2. ASSUME NEW k \in from..to, NEW w \in Named[k]
      PROVE  w \in discovery!WalletsOf(discovery!Events(from, to))
  <2>1. <<k, w>> \in discovery!Events(from, to)
    BY <1>1, <1>2 DEF discovery!Events
  <2>2. w = <<k, w>>[2]
    OBVIOUS
  <2> QED
    BY <2>1, <2>2 DEF discovery!WalletsOf
<1>3. ASSUME NEW events \in SUBSET discovery!Events(from, to), NEW w \in discovery!WalletsOf(events)
      PROVE  \E k \in from..to : w \in Named[k]
  <2>1. PICK e \in discovery!Events(from, to) : w = e[2]
    BY <1>3 DEF discovery!WalletsOf
  <2>2. PICK k \in from..to : e \in {<<k, v>> : v \in Named[k]}
    BY <1>1, <2>1 DEF discovery!Events
  <2> QED
    BY <2>1, <2>2
<1> QED
  BY <1>2, <1>3

\* the next chunk of an extension, or its end, from what the discovery has
LEMMA NextChunkIs ==
  ASSUME NEW ld \in LoadRecord, NEW d \in DiscoveryRecord, DiscoveryOK(d),
         NEW next, next = discovery!NextChunk(ld, d.scannedTo, d.wallets)
  PROVE  /\ next \in LoadRecord /\ next.asOf = ld.asOf /\ next.gen = ld.gen /\ next.cut = FALSE
         /\ next.pc \in {"scanning", "onchain"}
         /\ next.pc = "scanning" => ChunkOK(next, d)
         /\ next.pc = "onchain" /\ ~d.short => discovery!NamedTo(ld.asOf) \subseteq next.seen
<1>1. PICK from \in Nat : from = ChunkFrom(d) /\ from # 0
  BY ChainIs DEF ChunkFrom, DiscoveryRecord
<1>2. PICK to \in Int : to = discovery!ChunkEnd(from, ld.asOf)
  BY ChainIs DEF discovery!ChunkEnd, LoadRecord
<1>3. CASE from > ld.asOf
  <2>1. next = [ld EXCEPT !.pc = "onchain", !.seen = d.wallets, !.todo = <<>>, !.got = {}, !.cut = FALSE]
    BY <1>1, <1>3 DEF discovery!NextChunk, ChunkFrom
  <2>2. /\ next \in LoadRecord /\ next.asOf = ld.asOf /\ next.gen = ld.gen /\ next.cut = FALSE
        /\ next.pc = "onchain" /\ next.seen = d.wallets
    <3>1. next = [pc |-> "onchain", asOf |-> ld.asOf, left |-> ld.left, gen |-> ld.gen, to |-> ld.to,
                  todo |-> <<>>, splits |-> ld.splits, got |-> {}, cut |-> FALSE, seen |-> d.wallets]
      BY <2>1 DEF LoadRecord
    <3>2. <<>> \in Seq(BlockRange) /\ {} \in SUBSET Wallets /\ d.wallets \in SUBSET Wallets
      BY DEF DiscoveryRecord
    <3> QED
      BY <3>1, <3>2 DEF LoadRecord
  <2>3. discovery!NamedTo(ld.asOf) \subseteq discovery!NamedTo(d.scannedTo)
    <3>1. Deployment..ld.asOf \subseteq Deployment..d.scannedTo
      BY <1>1, <1>3, ChainIs DEF ChunkFrom, DiscoveryRecord, LoadRecord
    <3> QED
      BY <3>1 DEF discovery!NamedTo
  <2> QED
    BY <2>2, <2>3 DEF DiscoveryOK
<1>4. CASE ~(from > ld.asOf)
  <2>1. next = [ld EXCEPT !.pc = "scanning", !.to = to, !.splits = MaxSplits, !.got = {}, !.cut = FALSE,
                          !.todo = <<[from |-> from, to |-> to, atLeast |-> -1]>>]
    BY <1>1, <1>2, <1>4 DEF discovery!NextChunk, ChunkFrom
  <2>2. to \in Nat /\ from <= to /\ to <= ld.asOf /\ to <= Tip
    BY <1>1, <1>2, <1>4, ChainIs DEF discovery!ChunkEnd, LoadRecord
  <2> DEFINE g == [from |-> from, to |-> to, atLeast |-> -1]
  <2>3. g \in BlockRange
    BY <2>2 DEF BlockRange, Counts
  <2>4. <<g>> \in Seq(BlockRange) /\ Range(<<g>>) = {g}
    BY <2>3, RangeOne
  <2>5. /\ next \in LoadRecord /\ next.asOf = ld.asOf /\ next.gen = ld.gen /\ next.cut = FALSE
        /\ next.pc = "scanning" /\ next.to = to /\ next.got = {} /\ next.todo = <<g>>
    <3>1. next = [pc |-> "scanning", asOf |-> ld.asOf, left |-> ld.left, gen |-> ld.gen, to |-> to,
                  todo |-> <<g>>, splits |-> MaxSplits, got |-> {}, cut |-> FALSE, seen |-> ld.seen]
      BY <2>1 DEF LoadRecord
    <3>2. {} \in SUBSET Wallets /\ MaxSplits \in Int
      BY ChainIs
    <3> HIDE DEF g
    <3> QED
      BY <2>2, <2>4, <3>1, <3>2 DEF LoadRecord
  <2>6. ChunkOK(next, d)
    BY <1>1, <2>2, <2>4, <2>5 DEF ChunkOK
  <2> QED
    BY <2>5, <2>6
<1> QED
  BY <1>3, <1>4

LEMMA EventsWallets ==
  ASSUME NEW from, NEW to, NEW events \in SUBSET discovery!Events(from, to)
  PROVE  discovery!WalletsOf(events) \in SUBSET Wallets
<1>1. SUFFICES ASSUME NEW w \in discovery!WalletsOf(events) PROVE w \in Wallets
  OBVIOUS
<1>2. PICK e \in discovery!Events(from, to) : w = e[2]
  BY <1>1 DEF discovery!WalletsOf
<1>3. PICK k \in discovery!Blocks : e \in {<<k, v>> : v \in Named[k]}
  BY <1>2 DEF discovery!Events
<1> QED
  BY <1>2, <1>3, ChainIs

\* a load whose first range was answered, or is to be read again in parts
Accepted(ld, wallets, cut) == [ld EXCEPT !.todo = Tail(@), !.got = @ \union wallets, !.cut = @ \/ cut]
Reread(ld, parts, splits) == [ld EXCEPT !.splits = splits, !.todo = parts \o Tail(@)]

\* logs that are taken for a range join the chunk
LEMMA AcceptIs ==
  ASSUME NEW ld \in LoadRecord, ld.todo # <<>>,
         NEW g, g = Head(ld.todo), NEW events \in SUBSET discovery!Events(g.from, g.to),
         NEW cut \in BOOLEAN, events = discovery!Events(g.from, g.to) \/ cut,
         NEW next, next = Accepted(ld, discovery!WalletsOf(events), cut)
  PROVE  /\ next \in LoadRecord /\ next.pc = ld.pc /\ next.asOf = ld.asOf /\ next.gen = ld.gen
         /\ next.cut = (ld.cut \/ cut)
         /\ \A d \in DiscoveryRecord : DiscoveryOK(d) /\ ChunkOK(ld, d) => ChunkOK(next, d)
<1>1. /\ ld.todo \in Seq(BlockRange) /\ ld.got \in SUBSET Wallets /\ ld.cut \in BOOLEAN
  BY DEF LoadRecord
<1>2. /\ g \in BlockRange /\ Tail(ld.todo) \in Seq(BlockRange)
      /\ Range(ld.todo) = {g} \cup Range(Tail(ld.todo))
  BY <1>1, TailRange
<1>3. PICK wallets \in SUBSET Wallets : wallets = discovery!WalletsOf(events)
  BY EventsWallets
<1>4. PICK c \in BOOLEAN : c = (ld.cut \/ cut)
  OBVIOUS
<1>5. next = [pc |-> ld.pc, asOf |-> ld.asOf, left |-> ld.left, gen |-> ld.gen, to |-> ld.to,
              todo |-> Tail(ld.todo), splits |-> ld.splits, got |-> ld.got \cup wallets,
              cut |-> c, seen |-> ld.seen]
  BY <1>3, <1>4 DEF LoadRecord, Accepted
<1>6. /\ next \in LoadRecord /\ next.pc = ld.pc /\ next.asOf = ld.asOf /\ next.gen = ld.gen
      /\ next.cut = c
  <2>1. ld.got \cup wallets \in SUBSET Wallets
    BY <1>1
  <2> QED
    BY <1>2, <1>4, <1>5, <2>1 DEF LoadRecord
<1>7. ASSUME NEW d \in DiscoveryRecord, DiscoveryOK(d), ChunkOK(ld, d)
      PROVE  ChunkOK(next, d)
  <2>1. PICK from \in Nat : from = ChunkFrom(d) /\ Deployment <= from
    BY <1>7, ChainIs DEF ChunkFrom, DiscoveryRecord, DiscoveryOK
  <2>2. /\ from <= ld.to /\ ld.to <= Tip /\ from <= g.from /\ g.to <= ld.to
        /\ g.from \in Nat /\ g.to \in Nat /\ ld.to \in Nat
        /\ ld.got \subseteq UNION {Named[k] : k \in from..ld.to}
    BY <1>2, <1>7, <2>1 DEF ChunkOK, BlockRange, LoadRecord
  <2>3. /\ \A k \in g.from..g.to : Named[k] \subseteq discovery!WalletsOf(discovery!Events(g.from, g.to))
        /\ wallets \subseteq UNION {Named[k] : k \in g.from..g.to}
    <3>1. Deployment <= g.from /\ g.to <= Tip
      BY <2>1, <2>2, ChainIs
    <3> QED
      BY <1>3, <2>2, <3>1, EventsName
  <2>4. wallets \subseteq UNION {Named[k] : k \in from..ld.to}
    <3>1. g.from..g.to \subseteq from..ld.to
      BY <2>2
    <3> QED
      BY <2>3, <3>1
  <2>5. ASSUME ~(ld.cut \/ cut), NEW k \in from..ld.to
        PROVE  \/ Named[k] \subseteq ld.got \cup wallets
               \/ \E h \in Range(Tail(ld.todo)) : k \in h.from..h.to
    <3>1. Named[k] \subseteq ld.got \/ \E h \in Range(ld.todo) : k \in h.from..h.to
      BY <1>7, <2>1, <2>5 DEF ChunkOK
    <3>2. CASE k \in g.from..g.to
      BY <1>3, <2>3, <2>5, <3>2
    <3>3. CASE ~(k \in g.from..g.to)
      BY <1>2, <3>1, <3>3
    <3> QED
      BY <3>2, <3>3
  <2>6. /\ next.to = ld.to /\ next.todo = Tail(ld.todo) /\ next.got = ld.got \cup wallets
    BY <1>3, <1>4, <1>5
  <2>7. \A h \in Range(Tail(ld.todo)) : from <= h.from /\ h.to <= ld.to
    BY <1>2, <1>7, <2>1 DEF ChunkOK
  <2> QED
    BY <1>6, <1>4, <2>1, <2>2, <2>4, <2>5, <2>6, <2>7 DEF ChunkOK
<1> QED
  BY <1>6, <1>7, <1>4

\* a range that is to be read again, or in parts, is still covered
LEMMA RereadIs ==
  ASSUME NEW ld \in LoadRecord, ld.todo # <<>>,
         NEW g, g = Head(ld.todo), NEW parts \in Seq(BlockRange), NEW splits \in Int,
         \A h \in Range(parts) : g.from <= h.from /\ h.to <= g.to,
         \A k \in g.from..g.to : \E h \in Range(parts) : k \in h.from..h.to,
         NEW next, next = Reread(ld, parts, splits)
  PROVE  /\ next \in LoadRecord /\ next.pc = ld.pc /\ next.asOf = ld.asOf /\ next.gen = ld.gen
         /\ next.cut = ld.cut
         /\ \A d \in DiscoveryRecord : DiscoveryOK(d) /\ ChunkOK(ld, d) => ChunkOK(next, d)
<1>1. ld.todo \in Seq(BlockRange)
  BY DEF LoadRecord
<1>2. /\ g \in BlockRange /\ Tail(ld.todo) \in Seq(BlockRange)
      /\ Range(ld.todo) = {g} \cup Range(Tail(ld.todo))
  BY <1>1, TailRange
<1>3. /\ parts \o Tail(ld.todo) \in Seq(BlockRange)
      /\ Range(parts \o Tail(ld.todo)) = Range(parts) \cup Range(Tail(ld.todo))
  <2>1. parts \o Tail(ld.todo) \in Seq(BlockRange)
    BY <1>2, ConcatProperties
  <2>2. Range(parts \o Tail(ld.todo)) = Range(parts) \cup Range(Tail(ld.todo))
    <3>1. PICK rest \in Seq(BlockRange) : rest = Tail(ld.todo)
      BY <1>2
    <3>2. Range(parts \o rest) = Range(parts) \cup Range(rest)
      BY RangeConcatenation
    <3> QED
      BY <3>1, <3>2
  <2> QED
    BY <2>1, <2>2
<1>4. next = [pc |-> ld.pc, asOf |-> ld.asOf, left |-> ld.left, gen |-> ld.gen, to |-> ld.to,
              todo |-> parts \o Tail(ld.todo), splits |-> splits, got |-> ld.got,
              cut |-> ld.cut, seen |-> ld.seen]
  BY DEF LoadRecord, Reread
<1>5. /\ next \in LoadRecord /\ next.pc = ld.pc /\ next.asOf = ld.asOf /\ next.gen = ld.gen
      /\ next.cut = ld.cut
  BY <1>3, <1>4 DEF LoadRecord
<1>6. ASSUME NEW d \in DiscoveryRecord, DiscoveryOK(d), ChunkOK(ld, d)
      PROVE  ChunkOK(next, d)
  <2>1. PICK from \in Nat : from = ChunkFrom(d)
    BY ChainIs DEF ChunkFrom, DiscoveryRecord
  <2>2. /\ next.to = ld.to /\ next.todo = parts \o Tail(ld.todo) /\ next.got = ld.got
    BY <1>4
  <2>3. ASSUME NEW h \in Range(parts \o Tail(ld.todo))
        PROVE  from <= h.from /\ h.to <= ld.to
    <3>1. CASE h \in Range(Tail(ld.todo))
      BY <1>2, <1>6, <2>1, <3>1 DEF ChunkOK
    <3>2. CASE h \in Range(parts)
      <4>1. from <= g.from /\ g.to <= ld.to /\ g.from <= h.from /\ h.to <= g.to
        BY <1>2, <1>6, <2>1, <3>2 DEF ChunkOK
      <4>2. /\ h.from \in Nat /\ h.to \in Nat /\ g.from \in Nat /\ g.to \in Nat
            /\ ld.to \in Nat
        <5>1. h \in BlockRange
          BY <3>2, RangeOfSeq
        <5> QED
          BY <1>2, <5>1 DEF BlockRange, LoadRecord
      <4> QED
        BY <4>1, <4>2
    <3> QED
      BY <1>3, <3>1, <3>2
  <2>4. ASSUME ~ld.cut, NEW k \in from..ld.to
        PROVE  \/ Named[k] \subseteq ld.got
               \/ \E h \in Range(parts \o Tail(ld.todo)) : k \in h.from..h.to
    <3>1. Named[k] \subseteq ld.got \/ \E h \in Range(ld.todo) : k \in h.from..h.to
      BY <1>6, <2>1, <2>4 DEF ChunkOK
    <3> QED
      BY <1>2, <1>3, <3>1
  <2> QED
    BY <1>5, <1>6, <2>1, <2>2, <2>3, <2>4 DEF ChunkOK
<1> QED
  BY <1>5, <1>6

\* a range of more than one block falls into two that cover it
LEMMA HalvesAre ==
  ASSUME NEW g \in BlockRange, g.from # g.to
  PROVE  /\ discovery!Halves(g) \in Seq(BlockRange)
         /\ \A h \in Range(discovery!Halves(g)) : g.from <= h.from /\ h.to <= g.to
         /\ \A k \in g.from..g.to : \E h \in Range(discovery!Halves(g)) : k \in h.from..h.to
<1>1. /\ g.from \in Nat /\ g.to \in Nat /\ g.from < g.to
  BY DEF BlockRange
<1>2. PICK m \in Nat : /\ m = g.from + (g.to - g.from) \div 2
                       /\ g.from <= m /\ m < g.to
  <2>1. PICK n \in Nat : n = g.to - g.from /\ n > 0
    BY <1>1
  <2>2. n \div 2 \in Nat /\ n \div 2 < n
    BY <2>1
  <2> QED
    BY <1>1, <2>1, <2>2
<1> DEFINE x == [from |-> g.from, to |-> m, atLeast |-> -1]
           y == [from |-> m + 1, to |-> g.to, atLeast |-> -1]
<1>3. x \in BlockRange /\ y \in BlockRange
  BY <1>1, <1>2 DEF BlockRange, Counts
<1>4. discovery!Halves(g) = <<x, y>>
  BY <1>2 DEF discovery!Halves
<1>5. <<x, y>> \in Seq(BlockRange) /\ Range(<<x, y>>) = {x, y}
  BY <1>3, RangeTwo
<1> QED
  BY <1>1, <1>2, <1>4, <1>5

\* a range that is one block is read again as it is
LEMMA AgainIs ==
  ASSUME NEW g \in BlockRange, NEW n \in Counts, NEW again, again = [g EXCEPT !.atLeast = n]
  PROVE  /\ <<again>> \in Seq(BlockRange)
         /\ \A h \in Range(<<again>>) : g.from <= h.from /\ h.to <= g.to
         /\ \A k \in g.from..g.to : \E h \in Range(<<again>>) : k \in h.from..h.to
<1>1. again \in BlockRange /\ again.from = g.from /\ again.to = g.to
  BY DEF BlockRange
<1>2. g.from \in Nat /\ g.to \in Nat
  BY DEF BlockRange
<1>3. <<again>> \in Seq(BlockRange) /\ Range(<<again>>) = {again}
  BY <1>1, RangeOne
<1>4. ASSUME NEW h \in Range(<<again>>)
      PROVE  g.from <= h.from /\ h.to <= g.to
  <2>1. h.from = g.from /\ h.to = g.to
    BY <1>1, <1>3, <1>4
  <2> QED
    BY <1>2, <2>1
<1>5. ASSUME NEW k \in g.from..g.to
      PROVE  \E h \in Range(<<again>>) : k \in h.from..h.to
  <2>1. again \in Range(<<again>>) /\ k \in again.from..again.to
    BY <1>1, <1>3
  <2> QED
    BY <2>1
<1> QED
  BY <1>3, <1>4, <1>5

\* a discovery that a load's chunk has joined
Committed(d, ld) == [d EXCEPT !.wallets = @ \union ld.got, !.scannedTo = ld.to, !.short = @ \/ ld.cut]

\* a committed chunk is what the index learns: the blocks up to its end, and of
\* them nothing but what they name, all of it unless an answer was cut
LEMMA CommitIs ==
  ASSUME NEW ld \in LoadRecord, NEW d \in DiscoveryRecord, DiscoveryOK(d), d.live,
         ChunkOK(ld, d), ld.todo = <<>>,
         NEW next, next = Committed(d, ld)
  PROVE  /\ next \in DiscoveryRecord /\ DiscoveryOK(next) /\ next.live /\ next.gen = d.gen
         /\ next.short = (d.short \/ ld.cut)
         /\ ~ld.cut => UNION {Named[k] : k \in ChunkFrom(d)..ld.to} \subseteq ld.got
<1>1. PICK from \in Nat : from = ChunkFrom(d) /\ Deployment <= from /\ from <= ld.to /\ ld.to <= Tip
  BY ChainIs DEF ChunkFrom, DiscoveryRecord, DiscoveryOK, ChunkOK
<1>2. /\ ld.to \in Nat /\ ld.to \in 0..Tip /\ ld.to # 0 /\ Deployment <= ld.to
      /\ ld.got \in SUBSET Wallets /\ d.wallets \in SUBSET Wallets
  BY <1>1, ChainIs DEF LoadRecord, DiscoveryRecord
<1>3. PICK c \in BOOLEAN : c = (d.short \/ ld.cut)
  OBVIOUS
<1>4. next = [live |-> d.live, gen |-> d.gen, scannedTo |-> ld.to, wallets |-> d.wallets \cup ld.got,
              short |-> c]
  BY <1>3 DEF DiscoveryRecord, Committed
<1>5. next \in DiscoveryRecord /\ next.live /\ next.gen = d.gen /\ next.short = c
  <2>1. d.wallets \cup ld.got \in SUBSET Wallets
    BY <1>2
  <2> QED
    BY <1>2, <1>3, <1>4, <2>1 DEF DiscoveryRecord
<1>6. ld.got \subseteq UNION {Named[k] : k \in from..ld.to}
  BY <1>1 DEF ChunkOK
<1>7. ASSUME ~ld.cut, NEW k \in from..ld.to
      PROVE  Named[k] \subseteq ld.got
  <2>1. Range(ld.todo) = {}
    BY RangeNone
  <2> QED
    BY <1>1, <1>7, <2>1 DEF ChunkOK
<1>8. discovery!NamedTo(ld.to) = discovery!NamedTo(d.scannedTo) \cup UNION {Named[k] : k \in from..ld.to}
  <2>1. Deployment..ld.to = (Deployment..d.scannedTo) \cup (from..ld.to)
    <3>1. CASE d.scannedTo = 0
      BY <1>1, <1>2, <3>1, ChainIs DEF ChunkFrom
    <3>2. CASE d.scannedTo # 0
      <4>1. d.scannedTo \in Nat /\ Deployment <= d.scannedTo /\ from = d.scannedTo + 1
        BY <1>1, <3>2, ChainIs DEF DiscoveryRecord, DiscoveryOK, ChunkFrom
      <4> QED
        BY <1>1, <1>2, <4>1, ChainIs
    <3> QED
      BY <3>1, <3>2
  <2> QED
    BY <2>1 DEF discovery!NamedTo
<1>9. DiscoveryOK(next)
  <2>1. /\ next.scannedTo = ld.to /\ next.wallets = d.wallets \cup ld.got /\ next.short = c /\ next.live
    BY <1>3, <1>4, <1>5
  <2>2. d.wallets \cup ld.got \subseteq discovery!NamedTo(ld.to)
    BY <1>6, <1>8 DEF DiscoveryOK
  <2>3. ~c => discovery!NamedTo(ld.to) \subseteq d.wallets \cup ld.got
    BY <1>3, <1>7, <1>8 DEF DiscoveryOK
  <2> QED
    BY <1>2, <2>1, <2>2, <2>3 DEF DiscoveryOK
<1>10. ~ld.cut => UNION {Named[k] : k \in ChunkFrom(d)..ld.to} \subseteq ld.got
  BY <1>1, <1>7
<1> QED
  BY <1>3, <1>5, <1>9, <1>10

----------------------------------------------------------------------------
(* The invariant of the discovery *)

Served == [asOf : 0..Tip, wallets : SUBSET Wallets]
InQueue(ld) == ld.pc \in {"queued", "scanning"}

\* the loads that wait or scan are in the queue, each once, and only the first scans
QueueOK ==
  /\ queue \in Seq(Loads)
  /\ \A i, j \in 1..Len(queue) : queue[i] = queue[j] => i = j
  /\ \A i \in 1..Len(queue) : InQueue(load[queue[i]])
  /\ \A r \in Loads : InQueue(load[r]) => \E i \in 1..Len(queue) : queue[i] = r
  /\ \A r \in Loads : load[r].pc = "scanning" => Head(queue) = r

\* a load knows of a cut answer, its chunk goes on where its discovery ends, and
\* what it proves on chain misses nobody unless an answer was cut
LoadOK(ld, d, cuts) ==
  /\ ld.cut => cuts > 0
  /\ (ld.pc = "scanning" /\ d.live /\ d.gen = ld.gen) => ChunkOK(ld, d)
  /\ (ld.pc = "onchain" /\ cuts = 0) => discovery!NamedTo(ld.asOf) \subseteq ld.seen

DiscoveryInv ==
  /\ head \in 0..Tip /\ short \in Nat /\ served \in Served
  /\ load \in [Loads -> LoadRecord]
  /\ disc \in DiscoveryRecord /\ DiscoveryOK(disc) /\ (disc.short => short > 0)
  /\ QueueOK
  /\ \A r \in Loads : LoadOK(load[r], disc, short)
  /\ discovery!NoOneMissed

\* the first load of the queue is one of Loads
LEMMA QueueHead ==
  ASSUME QueueOK, NEW r \in Loads, InQueue(load[r])
  PROVE  queue # <<>> /\ Head(queue) = queue[1] /\ 1 \in 1..Len(queue)
<1>1. PICK i \in 1..Len(queue) : queue[i] = r
  BY DEF QueueOK
<1>2. queue \in Seq(Loads) /\ Len(queue) \in Nat
  BY LenProperties DEF QueueOK
<1>3. queue # <<>>
  BY <1>1, <1>2, EmptySeq
<1> QED
  BY <1>1, <1>2, <1>3

\* a load that stays in the queue or out of it
LEMMA QueueStays ==
  ASSUME QueueOK, NEW r \in Loads, NEW next, load \in [Loads -> LoadRecord],
         load' = [load EXCEPT ![r] = next], queue' = queue,
         InQueue(next) <=> InQueue(load[r]),
         next.pc = "scanning" => Head(queue) = r
  PROVE  QueueOK'
<1>1. \A q \in Loads : load'[q] = IF q = r THEN next ELSE load[q]
  OBVIOUS
<1>2. queue \in Seq(Loads) /\ \A i \in 1..Len(queue) : queue[i] \in Loads
  BY ElementOfSeq DEF QueueOK
<1> QED
  BY <1>1, <1>2 DEF QueueOK, InQueue

\* a load that joins the queue
LEMMA QueueJoined ==
  ASSUME QueueOK, NEW r \in Loads, NEW next, load \in [Loads -> LoadRecord],
         load' = [load EXCEPT ![r] = next], queue' = Append(queue, r),
         ~InQueue(load[r]), next.pc = "queued"
  PROVE  QueueOK'
<1>1. \A q \in Loads : load'[q] = IF q = r THEN next ELSE load[q]
  OBVIOUS
<1>2. /\ queue \in Seq(Loads) /\ Len(queue) \in Nat
      /\ \A i \in 1..Len(queue) : queue[i] \in Loads /\ queue[i] # r
  BY ElementOfSeq, LenProperties DEF QueueOK
<1>3. /\ queue' \in Seq(Loads) /\ Len(queue') = Len(queue) + 1
      /\ \A i \in 1..Len(queue) : queue'[i] = queue[i]
      /\ queue'[Len(queue) + 1] = r
  BY <1>2, AppendProperties
<1>4. ASSUME NEW i \in 1..Len(queue'), i # Len(queue) + 1
      PROVE  i \in 1..Len(queue)
  BY <1>2, <1>3, <1>4
<1>5. \A i, j \in 1..Len(queue') : queue'[i] = queue'[j] => i = j
  BY <1>2, <1>3, <1>4 DEF QueueOK
<1>6. \A i \in 1..Len(queue') : InQueue(load'[queue'[i]])
  BY <1>1, <1>2, <1>3, <1>4 DEF QueueOK, InQueue
<1>7. ASSUME NEW q \in Loads, InQueue(load'[q])
      PROVE  \E i \in 1..Len(queue') : queue'[i] = q
  <2>1. CASE q = r
    <3>1. Len(queue) + 1 \in 1..Len(queue')
      BY <1>2, <1>3
    <3> QED
      BY <1>3, <2>1, <3>1
  <2>2. CASE q # r
    <3>1. PICK i \in 1..Len(queue) : queue[i] = q
      BY <1>1, <1>7, <2>2 DEF QueueOK
    <3>2. i \in 1..Len(queue')
      BY <1>2, <1>3
    <3> QED
      BY <1>3, <3>1, <3>2
  <2> QED
    BY <2>1, <2>2
<1>8. ASSUME NEW q \in Loads, load'[q].pc = "scanning"
      PROVE  Head(queue') = q
  <2>1. q # r /\ load[q].pc = "scanning"
    BY <1>1, <1>8
  <2>2. queue # <<>> /\ Head(queue) = queue[1] /\ 1 \in 1..Len(queue) /\ Head(queue) = q
    BY <2>1, QueueHead DEF QueueOK, InQueue
  <2>3. Head(queue') = queue'[1]
    BY <1>2, <1>3
  <2> QED
    BY <1>3, <2>2, <2>3
<1> QED
  BY <1>3, <1>5, <1>6, <1>7, <1>8 DEF QueueOK, InQueue

\* a load that ends, or has nothing more to scan
LEMMA QueueLeft ==
  ASSUME QueueOK, NEW r \in Loads, NEW next, load \in [Loads -> LoadRecord],
         load' = [load EXCEPT ![r] = next], queue' = discovery!Without(r),
         ~InQueue(next), InQueue(load[r]) => Head(queue) = r
  PROVE  QueueOK'
<1>1. \A q \in Loads : load'[q] = IF q = r THEN next ELSE load[q]
  OBVIOUS
<1>2. CASE ~InQueue(load[r])
  <2>1. queue' = queue
    <3>1. SUFFICES ASSUME queue # <<>>, Head(queue) = r PROVE FALSE
      BY DEF discovery!Without
    <3>2. queue \in Seq(Loads) /\ 1 \in 1..Len(queue) /\ Head(queue) = queue[1]
      BY <3>1, LenProperties, EmptySeq DEF QueueOK
    <3> QED
      BY <1>2, <3>1, <3>2 DEF QueueOK
  <2> QED
    BY <1>1, <1>2, <2>1, QueueStays DEF InQueue
<1>3. CASE InQueue(load[r])
  <2>1. queue # <<>> /\ Head(queue) = r /\ queue[1] = r /\ 1 \in 1..Len(queue)
    BY <1>3, QueueHead
  <2>2. /\ queue \in Seq(Loads) /\ Len(queue) \in Nat
        /\ \A i \in 1..Len(queue) : queue[i] \in Loads
    BY ElementOfSeq, LenProperties DEF QueueOK
  <2>3. queue' = Tail(queue)
    BY <2>1 DEF discovery!Without
  <2>4. /\ queue' \in Seq(Loads) /\ Len(queue') = Len(queue) - 1
        /\ \A i \in 1..Len(queue') : queue'[i] = queue[i + 1]
    BY <2>1, <2>2, <2>3, HeadTailProperties
  <2>5. ASSUME NEW i \in 1..Len(queue')
        PROVE  i + 1 \in 1..Len(queue) /\ i + 1 # 1 /\ queue'[i] # r
    <3>1. i + 1 \in 1..Len(queue) /\ i + 1 # 1
      BY <2>2, <2>4
    <3> QED
      BY <2>1, <2>4, <3>1 DEF QueueOK
  <2>6. \A i, j \in 1..Len(queue') : queue'[i] = queue'[j] => i = j
    <3>1. SUFFICES ASSUME NEW i \in 1..Len(queue'), NEW j \in 1..Len(queue'), queue'[i] = queue'[j]
                   PROVE  i = j
      OBVIOUS
    <3>2. i + 1 = j + 1
      <4>1. i + 1 \in 1..Len(queue) /\ j + 1 \in 1..Len(queue)
        BY <2>5
      <4>2. queue[i + 1] = queue[j + 1]
        BY <2>4, <3>1
      <4> QED
        BY <4>1, <4>2 DEF QueueOK
    <3> QED
      BY <3>2
  <2>7. \A i \in 1..Len(queue') : InQueue(load'[queue'[i]])
    BY <1>1, <2>2, <2>4, <2>5, SMTT(30) DEF QueueOK
  <2>8. ASSUME NEW q \in Loads, InQueue(load'[q])
        PROVE  \E i \in 1..Len(queue') : queue'[i] = q
    <3>1. q # r /\ InQueue(load[q])
      BY <1>1, <2>8
    <3>2. PICK i \in 1..Len(queue) : queue[i] = q
      BY <3>1 DEF QueueOK
    <3>3. i - 1 \in 1..Len(queue') /\ (i - 1) + 1 = i
      BY <2>1, <2>2, <2>4, <3>1, <3>2
    <3> QED
      BY <2>4, <3>2, <3>3
  <2>9. ASSUME NEW q \in Loads, load'[q].pc = "scanning"
        PROVE  Head(queue') = q
    <3>1. q # r /\ load[q].pc = "scanning"
      BY <1>1, <2>9 DEF InQueue
    <3> QED
      BY <2>1, <3>1 DEF QueueOK
  <2> QED
    BY <2>4, <2>6, <2>7, <2>8, <2>9 DEF QueueOK, InQueue
<1> QED
  BY <1>2, <1>3

LEMMA LoadOKLater ==
  ASSUME NEW ld, NEW d, NEW cuts \in Nat, NEW later \in Nat, cuts <= later, LoadOK(ld, d, cuts)
  PROVE  LoadOK(ld, d, later)
<1>1. later = 0 => cuts = 0
  OBVIOUS
<1>2. cuts > 0 => later > 0
  OBVIOUS
<1> QED
  BY <1>1, <1>2 DEF LoadOK

\* a step of one load: every other one keeps what it knows, the more so when
\* the discovery is dropped, or when no other load scans
LEMMA LoadSteps ==
  ASSUME DiscoveryInv, NEW r \in Loads, NEW next \in LoadRecord,
         load' = [load EXCEPT ![r] = next], QueueOK',
         NEW d \in DiscoveryRecord, disc' = d, DiscoveryOK(d),
         NEW cuts \in Nat, short' = cuts, short <= cuts, d.short => cuts > 0,
         LoadOK(next, d, cuts),
         d = disc \/ ~d.live \/ \A q \in Loads \ {r} : load[q].pc # "scanning",
         UNCHANGED head,
         \/ UNCHANGED served
         \/ served' \in Served /\ discovery!NoOneMissed'
  PROVE  DiscoveryInv'
<1>1. \A q \in Loads : load'[q] = IF q = r THEN next ELSE load[q]
  BY DEF DiscoveryInv
<1>2. load' \in [Loads -> LoadRecord]
  BY DEF DiscoveryInv
<1>3. ASSUME NEW q \in Loads
      PROVE  LoadOK(load'[q], d, cuts)
  <2>1. CASE q = r
    BY <1>1, <2>1
  <2>2. CASE q # r
    <3>1. LoadOK(load[q], disc, cuts)
      BY LoadOKLater DEF DiscoveryInv
    <3>2. load'[q] = load[q]
      BY <1>1, <2>2
    <3> QED
      BY <2>2, <3>1, <3>2 DEF LoadOK
  <2> QED
    BY <2>1, <2>2
<1>4. \A q \in Loads : LoadOK(load[q], disc, short)'
  BY <1>3 DEF LoadOK, ChunkOK, ChunkFrom, discovery!NamedTo
<1>5. served' \in Served /\ discovery!NoOneMissed'
  <2>1. CASE UNCHANGED served
    <3>1. short' = 0 => short = 0
      BY DEF DiscoveryInv
    <3> QED
      BY <2>1, <3>1 DEF DiscoveryInv, discovery!NoOneMissed, discovery!NamedTo,
                        Served
  <2>2. CASE ~(UNCHANGED served)
    BY <2>2
  <2> QED
    BY <2>1, <2>2
<1>6. DiscoveryOK(disc)'
  BY DEF DiscoveryOK, discovery!NamedTo
<1>7. head' \in 0..Tip /\ short' \in Nat /\ disc' \in DiscoveryRecord /\ (disc'.short => short' > 0)
  BY DEF DiscoveryInv
<1> QED
  BY <1>2, <1>4, <1>5, <1>6, <1>7 DEF DiscoveryInv, DiscoveryRecord, LoadRecord, BlockRange, Served

LEMMA IdleIs ==
  /\ discovery!Idle \in LoadRecord /\ ~InQueue(discovery!Idle)
  /\ \A d, cuts : LoadOK(discovery!Idle, d, cuts)
<1>1. <<>> \in Seq(BlockRange) /\ 0 \in 0..Tip /\ {} \in SUBSET Wallets /\ 0 \in Nat /\ 0 \in Int
  BY ChainIs
<1>2. discovery!Idle \in LoadRecord
  BY <1>1 DEF discovery!Idle, LoadRecord
<1>3. discovery!Idle.pc = "idle" /\ discovery!Idle.cut = FALSE
  BY DEF discovery!Idle
<1> QED
  BY <1>2, <1>3 DEF InQueue, LoadOK

\* a load ends without a trace but the discovery it may have dropped or extended
LEMMA LoadEnds ==
  ASSUME DiscoveryInv, NEW r \in Loads, discovery!End(r),
         InQueue(load[r]) => Head(queue) = r,
         NEW d \in DiscoveryRecord, disc' = d, DiscoveryOK(d), short' = short, d.short => short > 0,
         d = disc \/ ~d.live \/ \A q \in Loads \ {r} : load[q].pc # "scanning",
         UNCHANGED head,
         \/ UNCHANGED served
         \/ served' \in Served /\ discovery!NoOneMissed'
  PROVE  DiscoveryInv'
<1>1. load' = [load EXCEPT ![r] = discovery!Idle] /\ queue' = discovery!Without(r)
  BY DEF discovery!End
<1>2. QueueOK'
  BY <1>1, IdleIs, QueueLeft DEF DiscoveryInv
<1>3. short \in Nat /\ short <= short
  BY DEF DiscoveryInv
<1> QED
  BY <1>1, <1>2, <1>3, IdleIs, LoadSteps

\* a load alone moves on and the discovery is as it was
LEMMA LoadMoves ==
  ASSUME DiscoveryInv, NEW r \in Loads, NEW next \in LoadRecord,
         load' = [load EXCEPT ![r] = next], QueueOK',
         NEW cuts \in Nat, short' = cuts, short <= cuts, LoadOK(next, disc, cuts),
         UNCHANGED <<head, disc, served>>
  PROVE  DiscoveryInv'
<1>1. disc \in DiscoveryRecord /\ DiscoveryOK(disc) /\ (disc.short => short > 0) /\ short \in Nat
  BY DEF DiscoveryInv
<1>2. disc.short => cuts > 0
  BY <1>1
<1> QED
  BY <1>1, <1>2, LoadSteps

LEMMA StartKept ==
  ASSUME DiscoveryInv, NEW r \in Loads, discovery!Start(r)
  PROVE  DiscoveryInv'
<1> DEFINE next == [discovery!Idle EXCEPT !.pc = "asOf", !.left = Budget]
<1>1. load' = [load EXCEPT ![r] = next] /\ queue' = queue /\ load[r].pc = "idle"
      /\ UNCHANGED <<head, disc, served, short>>
  BY DEF discovery!Start
<1>2. next \in LoadRecord /\ next.pc = "asOf" /\ next.cut = FALSE
  <2>1. PICK ld \in LoadRecord : ld = discovery!Idle /\ ld.cut = FALSE
    BY IdleIs DEF discovery!Idle
  <2>4. next = [ld EXCEPT !.pc = "asOf", !.left = Budget]
    BY <2>1
  <2> HIDE DEF next
  <2>2. next = [pc |-> "asOf", asOf |-> ld.asOf, left |-> Budget, gen |-> ld.gen, to |-> ld.to,
                todo |-> ld.todo, splits |-> ld.splits, got |-> ld.got, cut |-> ld.cut, seen |-> ld.seen]
    BY <2>4 DEF LoadRecord
  <2>3. Budget \in Int
    BY ChainIs
  <2> QED
    BY <2>1, <2>2, <2>3 DEF LoadRecord
<1> HIDE DEF next
<1>3. LoadOK(next, disc, short)
  BY <1>2 DEF LoadOK
<1>4. QueueOK'
  BY <1>1, <1>2, QueueStays DEF DiscoveryInv, InQueue
<1>5. short \in Nat /\ short <= short
  BY DEF DiscoveryInv
<1> QED
  BY <1>1, <1>2, <1>3, <1>4, <1>5, LoadMoves

LEMMA ReadBlockKept ==
  ASSUME DiscoveryInv, NEW r \in Loads, discovery!ReadBlock(r)
  PROVE  DiscoveryInv'
<1> DEFINE next == [load[r] EXCEPT !.pc = "queued", !.asOf = head]
<1>1. load' = [load EXCEPT ![r] = next] /\ queue' = Append(queue, r) /\ load[r].pc = "asOf"
      /\ UNCHANGED <<head, disc, served, short>>
  BY DEF discovery!ReadBlock, DiscoveryInv
<1>2. load[r] \in LoadRecord /\ head \in 0..Tip
  BY DEF DiscoveryInv
<1>3. next \in LoadRecord /\ next.pc = "queued" /\ next.cut = load[r].cut
  BY <1>2 DEF LoadRecord
<1> HIDE DEF next
<1>4. LoadOK(next, disc, short)
  BY <1>3 DEF LoadOK, DiscoveryInv
<1>5. QueueOK'
  BY <1>1, <1>3, QueueJoined DEF DiscoveryInv, InQueue
<1>6. short \in Nat /\ short <= short
  BY DEF DiscoveryInv
<1> QED
  BY <1>1, <1>3, <1>4, <1>5, <1>6, LoadMoves

LEMMA EndsKept ==
  ASSUME DiscoveryInv, NEW r \in Loads,
         discovery!NothingFinalized(r) \/ discovery!Rebuilding(r) \/ discovery!FailedRead(r)
  PROVE  DiscoveryInv'
<1>1. discovery!End(r) /\ UNCHANGED <<head, disc, served, short>>
  BY DEF discovery!NothingFinalized, discovery!Rebuilding, discovery!FailedRead
<1>2. InQueue(load[r]) => Head(queue) = r
  BY DEF discovery!NothingFinalized, discovery!Rebuilding, discovery!FailedRead, discovery!MyTurn,
         InQueue, DiscoveryInv, QueueOK
<1>3. disc \in DiscoveryRecord /\ DiscoveryOK(disc) /\ (disc.short => short > 0)
  BY DEF DiscoveryInv
<1> QED
  BY <1>1, <1>2, <1>3, LoadEnds

\* the first load of the queue starts to extend the discovery it finds or makes
LEMMA ExtendKept ==
  ASSUME DiscoveryInv, NEW r \in Loads, discovery!Extend(r)
  PROVE  DiscoveryInv'
<1>1. load[r].pc = "queued" /\ Head(queue) = r
  BY DEF discovery!Extend, discovery!MyTurn
<1>2. PICK d : /\ d = IF disc.live THEN disc
                      ELSE [live |-> TRUE, gen |-> disc.gen + 1, scannedTo |-> 0, wallets |-> {},
                            short |-> FALSE]
               /\ disc' = d
               /\ \E next : /\ next = discovery!NextChunk([load[r] EXCEPT !.gen = d.gen], d.scannedTo, d.wallets)
                            /\ load' = [load EXCEPT ![r] = next]
                            /\ queue' = discovery!Leave(r, next)
  BY DEF discovery!Extend
<1>3. PICK next : /\ next = discovery!NextChunk([load[r] EXCEPT !.gen = d.gen], d.scannedTo, d.wallets)
                  /\ load' = [load EXCEPT ![r] = next]
                  /\ queue' = discovery!Leave(r, next)
  BY <1>2
<1>4. load[r] \in LoadRecord /\ disc \in DiscoveryRecord /\ DiscoveryOK(disc) /\ short \in Nat
  BY DEF DiscoveryInv
<1>5. d \in DiscoveryRecord /\ DiscoveryOK(d) /\ (d.short => short > 0)
  <2>1. CASE disc.live
    BY <1>2, <1>4, <2>1 DEF DiscoveryInv
  <2>2. CASE ~disc.live
    <3>1. d \in DiscoveryRecord /\ d.scannedTo = 0 /\ d.wallets = {} /\ d.live /\ ~d.short
      BY <1>2, <1>4, <2>2, ChainIs DEF DiscoveryRecord
    <3> QED
      BY <3>1, NamedToNothing DEF DiscoveryOK
  <2> QED
    BY <2>1, <2>2
<1>6. PICK ld \in LoadRecord : ld = [load[r] EXCEPT !.gen = d.gen] /\ ld.cut = load[r].cut
  <2> DEFINE ld == [load[r] EXCEPT !.gen = d.gen]
  <2>1. d.gen \in Nat
    BY <1>5 DEF DiscoveryRecord
  <2>2. ld = [pc |-> load[r].pc, asOf |-> load[r].asOf, left |-> load[r].left, gen |-> d.gen,
              to |-> load[r].to, todo |-> load[r].todo, splits |-> load[r].splits,
              got |-> load[r].got, cut |-> load[r].cut, seen |-> load[r].seen]
    BY <1>4 DEF LoadRecord
  <2>3. ld \in LoadRecord /\ ld.cut = load[r].cut
    BY <1>4, <2>1, <2>2 DEF LoadRecord
  <2> QED
    BY <2>3
<1>7. /\ next \in LoadRecord /\ next.asOf = ld.asOf /\ next.cut = FALSE
      /\ next.pc \in {"scanning", "onchain"}
      /\ next.pc = "scanning" => ChunkOK(next, d)
      /\ next.pc = "onchain" /\ ~d.short => discovery!NamedTo(ld.asOf) \subseteq next.seen
  BY <1>3, <1>5, <1>6, NextChunkIs
<1>8. LoadOK(next, d, short)
  BY <1>5, <1>7 DEF LoadOK
<1>9. QueueOK'
  <2>1. CASE next.pc = "scanning"
    BY <1>1, <1>3, <2>1, QueueStays DEF DiscoveryInv, InQueue, discovery!Leave
  <2>2. CASE next.pc = "onchain"
    BY <1>1, <1>3, <2>2, QueueLeft DEF DiscoveryInv, InQueue, discovery!Leave
  <2> QED
    BY <1>7, <2>1, <2>2
<1>10. \A q \in Loads \ {r} : load[q].pc # "scanning"
  BY <1>1 DEF DiscoveryInv, QueueOK
<1>11. UNCHANGED <<head, served, short>> /\ short <= short
  BY <1>4 DEF discovery!Extend
<1> QED
  BY <1>2, <1>3, <1>4, <1>5, <1>7, <1>8, <1>9, <1>10, <1>11, LoadSteps

\* the range a load asks for is the first of its chunk, which no other load scans
LEMMA ReadingIs ==
  ASSUME DiscoveryInv, NEW r \in Loads, load[r].pc = "scanning"
  PROVE  /\ load[r] \in LoadRecord /\ Head(queue) = r
         /\ \A q \in Loads \ {r} : load[q].pc # "scanning"
         /\ load[r].todo # <<>> => discovery!Asked(r) \in BlockRange
<1>1. load[r] \in LoadRecord /\ QueueOK
  BY DEF DiscoveryInv
<1>2. load[r].todo \in Seq(BlockRange)
  BY <1>1 DEF LoadRecord
<1>3. load[r].todo # <<>> => discovery!Asked(r) \in BlockRange
  BY <1>2, TailRange DEF discovery!Asked
<1> QED
  BY <1>1, <1>3 DEF QueueOK

\* a load goes on to scan with a chunk that is as good for every discovery
LEMMA ScanMoves ==
  ASSUME DiscoveryInv, NEW r \in Loads, load[r].pc = "scanning", NEW next \in LoadRecord,
         next.pc = load[r].pc, next.gen = load[r].gen,
         \A d \in DiscoveryRecord : DiscoveryOK(d) /\ ChunkOK(load[r], d) => ChunkOK(next, d),
         load' = [load EXCEPT ![r] = next], queue' = queue,
         NEW cuts \in Nat, short' = cuts, short <= cuts, next.cut => load[r].cut \/ cuts > 0,
         UNCHANGED <<head, disc, served>>
  PROVE  DiscoveryInv'
<1>1. Head(queue) = r
  BY ReadingIs
<1>2. QueueOK'
  BY <1>1, QueueStays DEF DiscoveryInv, InQueue
<1>3. LoadOK(load[r], disc, short) /\ disc \in DiscoveryRecord /\ DiscoveryOK(disc) /\ short \in Nat
  BY DEF DiscoveryInv
<1>4. short > 0 => cuts > 0
  BY <1>3
<1>5. LoadOK(next, disc, cuts)
  BY <1>3, <1>4 DEF LoadOK
<1> QED
  BY <1>2, <1>5, LoadMoves

\* logs that join the chunk, all of the range's or, counted as short, some of them
LEMMA AcceptKept ==
  ASSUME DiscoveryInv, NEW r \in Loads, load[r].pc = "scanning", load[r].todo # <<>>,
         NEW events \in SUBSET discovery!Events(discovery!Asked(r).from, discovery!Asked(r).to),
         NEW cut \in BOOLEAN,
         events = discovery!Events(discovery!Asked(r).from, discovery!Asked(r).to) \/ cut,
         discovery!Accept(r, events, cut)
  PROVE  DiscoveryInv'
<1>1. load[r] \in LoadRecord /\ short \in Nat
  BY DEF DiscoveryInv
<1>a. PICK ld \in LoadRecord : ld = load[r]
  BY <1>1
<1>b. PICK next : next = Accepted(ld, discovery!WalletsOf(events), cut)
  OBVIOUS
<1>2. load' = [load EXCEPT ![r] = next] /\ UNCHANGED <<head, disc, queue, served>>
  BY <1>a, <1>b DEF discovery!Accept, DiscoveryInv, Accepted
<1>c. PICK g \in BlockRange : g = Head(ld.todo) /\ g = discovery!Asked(r)
  BY <1>a, ReadingIs DEF discovery!Asked
<1>3. /\ next \in LoadRecord /\ next.pc = load[r].pc /\ next.gen = load[r].gen
      /\ next.cut = (load[r].cut \/ cut)
      /\ \A d \in DiscoveryRecord : DiscoveryOK(d) /\ ChunkOK(load[r], d) => ChunkOK(next, d)
  <2>1. /\ next \in LoadRecord /\ next.pc = ld.pc /\ next.asOf = ld.asOf /\ next.gen = ld.gen
        /\ next.cut = (ld.cut \/ cut)
        /\ \A d \in DiscoveryRecord : DiscoveryOK(d) /\ ChunkOK(ld, d) => ChunkOK(next, d)
    BY <1>a, <1>b, <1>c, AcceptIs
  <2> QED
    BY <1>a, <2>1
<1>4. PICK cuts \in Nat : short' = cuts /\ short <= cuts /\ (cut => cuts > 0)
  BY <1>1 DEF discovery!Accept
<1> QED
  BY <1>2, <1>3, <1>4, ScanMoves

\* a range that is too large for the provider: again, in halves, or the load ends
LEMMA CrowdedKept ==
  ASSUME DiscoveryInv, NEW r \in Loads, load[r].pc = "scanning", load[r].todo # <<>>,
         NEW n \in Counts, discovery!Crowded(r, n), UNCHANGED <<head, disc, served, short>>
  PROVE  DiscoveryInv'
<1>1. load[r] \in LoadRecord /\ short \in Nat /\ disc \in DiscoveryRecord /\ DiscoveryOK(disc)
      /\ (disc.short => short > 0)
  BY DEF DiscoveryInv
<1>2. PICK g \in BlockRange : g = discovery!Asked(r) /\ g = Head(load[r].todo)
  BY ReadingIs DEF discovery!Asked
<1>3. ASSUME NEW parts \in Seq(BlockRange), NEW splits \in Int,
             \A h \in Range(parts) : g.from <= h.from /\ h.to <= g.to,
             \A k \in g.from..g.to : \E h \in Range(parts) : k \in h.from..h.to,
             load' = [load EXCEPT ![r] = Reread(load[r], parts, splits)],
             queue' = queue
      PROVE  DiscoveryInv'
  <2>a. PICK ld \in LoadRecord : ld = load[r] /\ ld.todo # <<>> /\ g = Head(ld.todo)
    BY <1>1, <1>2
  <2>b. PICK next : next = Reread(ld, parts, splits)
    OBVIOUS
  <2>c. /\ next \in LoadRecord /\ next.pc = ld.pc /\ next.asOf = ld.asOf /\ next.gen = ld.gen
        /\ next.cut = ld.cut
        /\ \A d \in DiscoveryRecord : DiscoveryOK(d) /\ ChunkOK(ld, d) => ChunkOK(next, d)
    BY <1>3, <2>a, <2>b, RereadIs
  <2>1. /\ next \in LoadRecord /\ next.pc = load[r].pc /\ next.gen = load[r].gen
        /\ next.cut = load[r].cut
        /\ \A d \in DiscoveryRecord : DiscoveryOK(d) /\ ChunkOK(load[r], d) => ChunkOK(next, d)
    BY <2>a, <2>c
  <2>2. load' = [load EXCEPT ![r] = next]
    BY <1>3, <2>a, <2>b
  <2>3. short \in Nat /\ short' = short /\ short <= short
    BY <1>1
  <2> QED
    BY <1>3, <2>1, <2>2, <2>3, ScanMoves
<1>4. CASE g.from = g.to
  <2> DEFINE again == [g EXCEPT !.atLeast = n]
  <2>1. load' = [load EXCEPT ![r] = Reread(load[r], <<again>>, load[r].splits)]
        /\ queue' = queue
    BY <1>1, <1>2, <1>4 DEF discovery!Crowded, DiscoveryInv, LoadRecord, Reread
  <2>2. /\ <<again>> \in Seq(BlockRange)
        /\ \A h \in Range(<<again>>) : g.from <= h.from /\ h.to <= g.to
        /\ \A k \in g.from..g.to : \E h \in Range(<<again>>) : k \in h.from..h.to
    BY AgainIs
  <2>3. load[r].splits \in Int
    BY <1>1 DEF LoadRecord
  <2> HIDE DEF again
  <2> QED
    BY <1>3, <2>1, <2>2, <2>3
<1>5. CASE g.from # g.to /\ load[r].splits < 2
  <2>1. discovery!End(r)
    BY <1>2, <1>5 DEF discovery!Crowded
  <2>2. Head(queue) = r
    BY ReadingIs
  <2> QED
    BY <1>1, <2>1, <2>2, LoadEnds
<1>6. CASE g.from # g.to /\ ~(load[r].splits < 2)
  <2>1. load' = [load EXCEPT ![r] = Reread(load[r], discovery!Halves(g), load[r].splits - 2)]
        /\ queue' = queue
    BY <1>1, <1>2, <1>6 DEF discovery!Crowded, DiscoveryInv, Reread
  <2>2. load[r].splits - 2 \in Int
    BY <1>1 DEF LoadRecord
  <2> QED
    BY <1>3, <1>6, <2>1, <2>2, HalvesAre
<1> QED
  BY <1>4, <1>5, <1>6

\* whatever the provider answers, or does not
LEMMA AnswersKept ==
  ASSUME DiscoveryInv, NEW r \in Loads,
         \/ discovery!WholeAnswer(r) \/ discovery!CappedAnswer(r)
         \/ discovery!TooLargeAnswer(r) \/ discovery!ShortAnswer(r)
  PROVE  DiscoveryInv'
<1>1. load[r].pc = "scanning" /\ load[r].todo # <<>>
  BY DEF discovery!WholeAnswer, discovery!CappedAnswer, discovery!TooLargeAnswer, discovery!ShortAnswer,
         discovery!Reading
<1>2. PICK range \in BlockRange : range = discovery!Asked(r)
  BY <1>1, ReadingIs
<1>3. PICK all : all = discovery!Events(range.from, range.to)
  OBVIOUS
<1>4. ASSUME NEW n \in Counts, discovery!Crowded(r, n), UNCHANGED <<head, disc, served, short>>
      PROVE  DiscoveryInv'
  BY <1>1, <1>4, CrowdedKept
<1>5. CASE discovery!WholeAnswer(r)
  <2>0. PICK n : n = discovery!Cardinality(all)
    OBVIOUS
  <2>1. CASE range.atLeast >= 0 \/ ~discovery!MayBeCut(n)
    <3>1. discovery!Accept(r, all, FALSE)
      BY <1>2, <1>3, <1>5, <2>0, <2>1 DEF discovery!WholeAnswer
    <3> QED
      BY <1>1, <1>2, <1>3, <3>1, AcceptKept
  <2>2. CASE ~(range.atLeast >= 0 \/ ~discovery!MayBeCut(n))
    <3>1. discovery!Crowded(r, n) /\ UNCHANGED <<head, disc, served, short>>
      BY <1>2, <1>3, <1>5, <2>0, <2>2 DEF discovery!WholeAnswer
    <3>2. n \in Counts
      <4>1. range.from \in Nat /\ range.to \in Nat
        BY DEF BlockRange
      <4>2. <<range.from, range.to>> \in Nat \X Nat
        BY <4>1
      <4> QED
        BY <1>3, <2>0, <4>2 DEF Counts
    <3> QED
      BY <1>4, <3>1, <3>2
  <2> QED
    BY <2>1, <2>2
<1>6. CASE discovery!CappedAnswer(r)
  <2>1. LogLimit \in Counts /\ discovery!MayBeCut(LogLimit)
    BY ChainIs DEF discovery!MayBeCut, Counts
  <2>2. discovery!Crowded(r, LogLimit) /\ UNCHANGED <<head, disc, served, short>>
    BY <1>6, <2>1 DEF discovery!CappedAnswer
  <2> QED
    BY <1>4, <2>1, <2>2
<1>7. CASE discovery!TooLargeAnswer(r)
  BY <1>4, <1>7 DEF discovery!TooLargeAnswer, Counts
<1>8. CASE discovery!ShortAnswer(r)
  <2>1. PICK events \in SUBSET all : discovery!Accept(r, events, TRUE)
    BY <1>2, <1>3, <1>8 DEF discovery!ShortAnswer
  <2> QED
    BY <1>1, <1>2, <1>3, <2>1, AcceptKept
<1> QED
  BY <1>5, <1>6, <1>7, <1>8

\* a whole chunk joins the discovery it was read for
LEMMA CommitKept ==
  ASSUME DiscoveryInv, NEW r \in Loads, discovery!Commit(r)
  PROVE  DiscoveryInv'
<1>1. load[r].pc = "scanning" /\ load[r].todo = <<>>
  BY DEF discovery!Commit
<1>2. /\ load[r] \in LoadRecord /\ disc \in DiscoveryRecord /\ DiscoveryOK(disc) /\ short \in Nat
      /\ (disc.short => short > 0) /\ LoadOK(load[r], disc, short) /\ Head(queue) = r
      /\ \A q \in Loads \ {r} : load[q].pc # "scanning"
      /\ UNCHANGED <<head, served, short>>
  BY <1>1, ReadingIs DEF DiscoveryInv, discovery!Commit
<1>3. PICK ld \in LoadRecord : ld = load[r]
  BY <1>2
<1>4. PICK next : next = discovery!NextChunk(ld, ld.to, disc.wallets \union ld.got)
  OBVIOUS
<1>5. PICK grown : grown = Committed(disc, ld)
  OBVIOUS
<1>6. CASE discovery!End(r) /\ UNCHANGED disc
  BY <1>2, <1>6, LoadEnds
<1>7. CASE ~(discovery!End(r) /\ UNCHANGED disc)
  <2>1. /\ disc.live /\ disc.gen = ld.gen /\ disc' = grown
        /\ \/ discovery!End(r)
           \/ load' = [load EXCEPT ![r] = next] /\ queue' = discovery!Leave(r, next)
    BY <1>3, <1>4, <1>5, <1>7 DEF discovery!Commit, Committed
  <2>2. ChunkOK(ld, disc) /\ (ld.cut => short > 0)
    BY <1>1, <1>2, <1>3, <2>1 DEF LoadOK
  <2>3. /\ grown \in DiscoveryRecord /\ DiscoveryOK(grown) /\ grown.live
        /\ grown.short = (disc.short \/ ld.cut)
    BY <1>1, <1>2, <1>3, <1>5, <2>1, <2>2, CommitIs
  <2>4. grown.short => short > 0
    BY <1>2, <2>2, <2>3
  <2>5. CASE discovery!End(r)
    BY <1>2, <2>1, <2>3, <2>4, <2>5, LoadEnds
  <2>6. CASE load' = [load EXCEPT ![r] = next] /\ queue' = discovery!Leave(r, next)
    <3>1. grown.scannedTo = ld.to /\ grown.wallets = disc.wallets \union ld.got
      BY <1>2, <1>5 DEF DiscoveryRecord, Committed
    <3>2. /\ next \in LoadRecord /\ next.asOf = ld.asOf /\ next.cut = FALSE
          /\ next.pc \in {"scanning", "onchain"}
          /\ next.pc = "scanning" => ChunkOK(next, grown)
          /\ next.pc = "onchain" /\ ~grown.short => discovery!NamedTo(ld.asOf) \subseteq next.seen
      <4>1. next = discovery!NextChunk(ld, grown.scannedTo, grown.wallets)
        BY <1>4, <3>1
      <4> QED
        BY <2>3, <4>1, NextChunkIs
    <3>3. LoadOK(next, grown, short)
      BY <1>2, <2>4, <3>2 DEF LoadOK
    <3>4. QueueOK'
      <4>1. CASE next.pc = "scanning"
        BY <1>1, <1>2, <2>6, <4>1, QueueStays DEF DiscoveryInv, InQueue, discovery!Leave
      <4>2. CASE next.pc = "onchain"
        BY <1>1, <1>2, <2>6, <4>2, QueueLeft DEF DiscoveryInv, InQueue, discovery!Leave
      <4> QED
        BY <3>2, <4>1, <4>2
    <3>5. short <= short
      BY <1>2
    <3> QED
      BY <1>2, <2>1, <2>3, <2>4, <2>6, <3>2, <3>3, <3>4, <3>5, LoadSteps
  <2> QED
    BY <2>1, <2>5, <2>6
<1> QED
  BY <1>6, <1>7

\* a board is published: without a cut answer the load has seen everyone
LEMMA PublishKept ==
  ASSUME DiscoveryInv, NEW r \in Loads, discovery!Publish(r)
  PROVE  DiscoveryInv'
<1>1. /\ load[r].pc = "onchain" /\ discovery!End(r)
      /\ UNCHANGED <<head, disc, short>>
  BY DEF discovery!Publish
<1>2. PICK ld \in LoadRecord : ld = load[r]
  BY DEF DiscoveryInv
<1>3. served' = [asOf |-> ld.asOf, wallets |-> ld.seen] /\ served' \in Served
  BY <1>2 DEF discovery!Publish, LoadRecord, Served
<1>5. discovery!NoOneMissed'
  <2>1. short = 0 => discovery!NamedTo(ld.asOf) \subseteq ld.seen
    BY <1>1, <1>2 DEF DiscoveryInv, LoadOK
  <2> QED
    BY <1>1, <1>3, <2>1 DEF discovery!NoOneMissed, discovery!NamedTo
<1>6. ~InQueue(load[r])
  BY <1>1 DEF InQueue
<1>7. disc \in DiscoveryRecord /\ DiscoveryOK(disc) /\ (disc.short => short > 0)
  BY DEF DiscoveryInv
<1> QED
  BY <1>1, <1>3, <1>5, <1>6, <1>7, LoadEnds

\* a proof that fails drops the discovery the load has read
LEMMA ProofFailsKept ==
  ASSUME DiscoveryInv, NEW r \in Loads, discovery!ProofFails(r)
  PROVE  DiscoveryInv'
<1>1. load[r].pc = "onchain" /\ discovery!End(r) /\ UNCHANGED <<head, served, short>>
  BY DEF discovery!ProofFails
<1>2. ~InQueue(load[r])
  BY <1>1 DEF InQueue
<1>3. disc \in DiscoveryRecord /\ DiscoveryOK(disc) /\ (disc.short => short > 0)
  BY DEF DiscoveryInv
<1>4. CASE UNCHANGED disc
  BY <1>1, <1>2, <1>3, <1>4, LoadEnds
<1>5. CASE disc' = discovery!Dropped
  <2>1. PICK d : d = disc' /\ d = [live |-> FALSE, gen |-> disc.gen, scannedTo |-> 0, wallets |-> {}, short |-> FALSE]
    BY <1>3, <1>5 DEF discovery!Dropped, DiscoveryRecord
  <2>2. /\ d \in DiscoveryRecord /\ d.scannedTo = 0 /\ d.wallets = {} /\ d.live = FALSE
        /\ d.short = FALSE
    <3>1. 0 \in 0..Tip /\ {} \in SUBSET Wallets
      BY ChainIs
    <3> QED
      BY <1>3, <2>1, <3>1 DEF DiscoveryRecord
  <2>3. DiscoveryOK(d)
    BY <2>2, NamedToNothing DEF DiscoveryOK
  <2> QED
    BY <1>1, <1>2, <2>1, <2>2, <2>3, LoadEnds
<1> QED
  BY <1>4, <1>5 DEF discovery!ProofFails

\* the chain grows, or nothing happens
LEMMA ChainGrows ==
  ASSUME DiscoveryInv, head' \in 0..Tip, UNCHANGED <<disc, queue, load, served, short>>
  PROVE  DiscoveryInv'
<1>1. QueueOK'
  BY DEF DiscoveryInv, QueueOK, InQueue
<1>2. \A r \in Loads : LoadOK(load[r], disc, short)'
  BY DEF DiscoveryInv, LoadOK, ChunkOK, ChunkFrom, discovery!NamedTo
<1>3. DiscoveryOK(disc)' /\ discovery!NoOneMissed'
  BY DEF DiscoveryInv, DiscoveryOK, discovery!NamedTo, discovery!NoOneMissed
<1> QED
  BY <1>1, <1>2, <1>3 DEF DiscoveryInv, DiscoveryRecord, LoadRecord, BlockRange, Counts,
                          discovery!Events, Served

LEMMA FinalizeKept ==
  ASSUME DiscoveryInv, discovery!Finalize
  PROVE  DiscoveryInv'
<1>1. head' \in 0..Tip
  BY ChainIs DEF DiscoveryInv, discovery!Finalize
<1> QED
  BY <1>1, ChainGrows DEF discovery!Finalize

\* time passes: a load has less of its budget left and is otherwise as it was
LEMMA TickKept ==
  ASSUME DiscoveryInv, discovery!Tick
  PROVE  DiscoveryInv'
<1>1. UNCHANGED <<head, disc, queue, served, short>>
  BY DEF discovery!Tick
<1>2. ASSUME NEW r \in Loads
      PROVE  /\ load'[r] \in LoadRecord /\ load'[r].pc = load[r].pc /\ load'[r].asOf = load[r].asOf
             /\ load'[r].gen = load[r].gen /\ load'[r].to = load[r].to /\ load'[r].todo = load[r].todo
             /\ load'[r].got = load[r].got /\ load'[r].cut = load[r].cut /\ load'[r].seen = load[r].seen
  <2>1. PICK ld \in LoadRecord : ld = load[r]
    BY DEF DiscoveryInv
  <2>2. PICK t \in Int : load'[r] = [ld EXCEPT !.left = t]
    <3>1. ld.left \in Int /\ ld = [ld EXCEPT !.left = ld.left] /\ ld.left - 1 \in Int
      BY DEF LoadRecord
    <3>2. load'[r] = ld \/ load'[r] = [ld EXCEPT !.left = ld.left - 1]
      BY <2>1 DEF discovery!Tick
    <3> QED
      BY <3>1, <3>2
  <2>3. load'[r] = [pc |-> ld.pc, asOf |-> ld.asOf, left |-> t, gen |-> ld.gen, to |-> ld.to,
                    todo |-> ld.todo, splits |-> ld.splits, got |-> ld.got, cut |-> ld.cut,
                    seen |-> ld.seen]
    BY <2>2 DEF LoadRecord
  <2> QED
    BY <2>1, <2>3 DEF LoadRecord
<1>3. load' \in [Loads -> LoadRecord]
  BY <1>2 DEF discovery!Tick
<1>4. QueueOK'
  <2>1. queue \in Seq(Loads) /\ \A i \in 1..Len(queue) : queue[i] \in Loads
    BY ElementOfSeq DEF DiscoveryInv, QueueOK
  <2> QED
    BY <1>1, <1>2, <2>1 DEF DiscoveryInv, QueueOK, InQueue
<1>5. ASSUME NEW r \in Loads
      PROVE  LoadOK(load[r], disc, short)'
  <2>1. LoadOK(load[r], disc, short)
    BY DEF DiscoveryInv
  <2> QED
    BY <1>1, <1>2, <2>1 DEF LoadOK, ChunkOK, ChunkFrom, discovery!NamedTo
<1> QED
  BY <1>1, <1>3, <1>4, <1>5 DEF DiscoveryInv, DiscoveryOK, discovery!NamedTo, discovery!NoOneMissed,
                                DiscoveryRecord, LoadRecord, BlockRange, Served

\* what a board has left out, and what it may not, holds in every step of the discovery
LEMMA DiscoveryKept == ASSUME DiscoveryInv, discovery!Next PROVE DiscoveryInv'
<1>1. ASSUME NEW r \in Loads, discovery!Progress(r)
      PROVE  DiscoveryInv'
  BY <1>1, StartKept, ReadBlockKept, EndsKept, ExtendKept, AnswersKept, CommitKept, PublishKept,
     ProofFailsKept DEF discovery!Progress
<1>2. ASSUME NEW r \in Loads, discovery!ShortAnswer(r)
      PROVE  DiscoveryInv'
  BY <1>2, AnswersKept
<1>3. ASSUME NEW r \in Loads, discovery!FailedRead(r)
      PROVE  DiscoveryInv'
  BY <1>3, EndsKept
<1> QED
  BY <1>1, <1>2, <1>3, FinalizeKept, TickKept DEF discovery!Next

LEMMA DiscoveryStarts ==
  ASSUME discovery!Init
  PROVE  DiscoveryInv
<1>1. /\ head = Deployment - 1 /\ short = 0 /\ queue = <<>>
      /\ disc = discovery!NoDiscovery /\ load = [r \in Loads |-> discovery!Idle]
      /\ served = discovery!None
  BY DEF discovery!Init, discovery!AtRest
<1>2. head \in 0..Tip /\ short \in Nat
  BY <1>1, ChainIs
<1>3. /\ disc \in DiscoveryRecord /\ disc.scannedTo = 0 /\ disc.wallets = {} /\ disc.live = FALSE
      /\ disc.short = FALSE
  <2>1. 0 \in 0..Tip /\ {} \in SUBSET Wallets /\ 0 \in Nat
    BY ChainIs
  <2> QED
    BY <1>1, <2>1 DEF discovery!NoDiscovery, DiscoveryRecord
<1>4. DiscoveryOK(disc)
  BY <1>3, NamedToNothing DEF DiscoveryOK
<1>5. load \in [Loads -> LoadRecord] /\ \A r \in Loads : LoadOK(load[r], disc, short)
  BY <1>1, IdleIs
<1>6. QueueOK
  BY <1>1, IdleIs DEF QueueOK, InQueue
<1>7. served \in Served /\ discovery!NoOneMissed
  <2>1. served.asOf = 0 /\ served.wallets = {} /\ served \in Served
    BY <1>1, ChainIs DEF discovery!None, Served
  <2> QED
    BY <2>1 DEF discovery!NoOneMissed
<1> QED
  BY <1>2, <1>3, <1>4, <1>5, <1>6, <1>7 DEF DiscoveryInv

\* in the other services the discovery has not started
ServiceInv == IF service = "discovery" THEN DiscoveryInv ELSE discovery!AtRest

LEMMA AlwaysServiceInv == Spec => []ServiceInv
<1>1. Init => ServiceInv
  BY DiscoveryStarts DEF Init, ServiceInv
<1>2. ServiceInv /\ [Next]_vars => ServiceInv'
  <2> SUFFICES ASSUME ServiceInv, [Next]_vars PROVE ServiceInv'
    OBVIOUS
  <2>1. CASE DiscoveryStep
    BY <2>1, DiscoveryKept DEF ServiceInv, DiscoveryStep
  <2>2. CASE UNCHANGED <<service, discoveryVars>> /\ service # "discovery"
    BY <2>2 DEF ServiceInv, discoveryVars, discovery!AtRest
  <2>3. CASE UNCHANGED <<service, chainVars, discoveryVars>>
    <3>1. CASE service = "discovery"
      <4>1. DiscoveryInv /\ head' \in 0..Tip
        BY <2>3, <3>1 DEF ServiceInv, DiscoveryInv, chainVars
      <4> QED
        BY <2>3, <3>1, <4>1, ChainGrows DEF ServiceInv, chainVars, discoveryVars
    <3>2. CASE service # "discovery"
      BY <2>3, <3>2 DEF ServiceInv, discoveryVars, discovery!AtRest
    <3> QED
      BY <3>1, <3>2
  <2> QED
    BY <2>1, <2>2, <2>3 DEF Next, MirrorStep, RankingStep, ServingStep, vars
<1> QED
  BY <1>1, <1>2, PTL DEF Spec

\* Unless an answer was silently shortened, a board also carries every wallet that has exited:
\* no cap, refusal, split, failed load or race of two loads loses one (blockLogs, logsIn).
THEOREM NoOneIsMissed == Spec => []NoOneMissed
<1>1. ServiceInv => NoOneMissed
  BY DEF ServiceInv, DiscoveryInv, NoOneMissed, discovery!AtRest, discovery!None, discovery!NoOneMissed
<1> QED
  BY <1>1, AlwaysServiceInv, PTL

----------------------------------------------------------------------------
(* The discovery as a progressive index *)

\* what the index holds of the discovery
IndexedTo(d) == IF d.scannedTo = 0 THEN Deployment - 1 ELSE d.scannedTo

\* the facts of a range of blocks, as the index names them
LEMMA FactsAreNamed ==
  ASSUME NEW from \in Nat, NEW to \in Nat, Deployment <= from, to <= Tip
  PROVE  discovery!Index!FactsIn(from, to) = UNION {Named[k] : k \in from..to}
<1>1. DOMAIN Named = Deployment..Tip
  BY ServicesOK DEF discovery!ConstantsOK, discovery!Blocks
<1>2. (from..to) \cap DOMAIN Named = from..to
  BY <1>1, ChainIs
<1> QED
  BY <1>2 DEF discovery!Index!FactsIn

\* a discovery that differs in no more than its name and whether it lives
LEMMA IndexRests ==
  ASSUME disc'.scannedTo = disc.scannedTo, disc'.wallets = disc.wallets, disc'.short = disc.short
  PROVE  [discovery!Index!Next]_<<IndexedTo(disc), disc.wallets, ~disc.short>>
BY DEF IndexedTo

\* a committed chunk is learned
LEMMA CommitLearns ==
  ASSUME DiscoveryInv, NEW r \in Loads, discovery!Commit(r)
  PROVE  [discovery!Index!Next]_<<IndexedTo(disc), disc.wallets, ~disc.short>>
<1>1. load[r].pc = "scanning" /\ load[r].todo = <<>>
  BY DEF discovery!Commit
<1>2. /\ load[r] \in LoadRecord /\ disc \in DiscoveryRecord /\ DiscoveryOK(disc)
      /\ LoadOK(load[r], disc, short)
  BY <1>1, ReadingIs DEF DiscoveryInv
<1>3. CASE UNCHANGED disc
  BY <1>3, IndexRests
<1>4. CASE ~(UNCHANGED disc)
  <2>1. PICK ld \in LoadRecord : ld = load[r]
    BY <1>2
  <2>2. PICK grown : grown = Committed(disc, ld)
    OBVIOUS
  <2>3. disc.live /\ disc.gen = ld.gen /\ disc' = grown
    BY <1>4, <2>1, <2>2 DEF discovery!Commit, Committed
  <2>4. ChunkOK(ld, disc)
    BY <1>1, <1>2, <2>1, <2>3 DEF LoadOK
  <2>5. /\ grown \in DiscoveryRecord /\ DiscoveryOK(grown)
        /\ grown.short = (disc.short \/ ld.cut)
        /\ ~ld.cut => UNION {Named[k] : k \in ChunkFrom(disc)..ld.to} \subseteq ld.got
    BY <1>1, <1>2, <2>1, <2>2, <2>3, <2>4, CommitIs
  <2>6. grown.scannedTo = ld.to /\ grown.wallets = disc.wallets \cup ld.got
    BY <1>2, <2>2 DEF DiscoveryRecord, Committed
  <2>7. PICK from \in Nat : from = ChunkFrom(disc) /\ Deployment <= from /\ from <= ld.to /\ ld.to <= Tip
    BY <1>2, <2>4, ChainIs DEF ChunkFrom, DiscoveryRecord, DiscoveryOK, ChunkOK
  <2>8. /\ from = IndexedTo(disc) + 1 /\ IndexedTo(grown) = ld.to /\ ld.to \in Nat
        /\ ld.to \in IndexedTo(disc) + 1..Tip
    BY <1>2, <2>1, <2>6, <2>7, ChainIs DEF IndexedTo, ChunkFrom, DiscoveryRecord, LoadRecord
  <2>9. discovery!Index!FactsIn(from, ld.to) = UNION {Named[k] : k \in from..ld.to}
    BY <2>7, <2>8, FactsAreNamed
  <2>10. ld.got \subseteq UNION {Named[k] : k \in from..ld.to}
    BY <2>4, <2>7 DEF ChunkOK
  <2>11. discovery!Index!Learn
    <3>1. IndexedTo(disc)' = ld.to
      BY <2>3, <2>8 DEF IndexedTo
    <3>2. /\ disc.wallets \subseteq disc'.wallets
          /\ disc'.wallets \subseteq disc.wallets \cup discovery!Index!FactsIn(IndexedTo(disc) + 1, ld.to)
      BY <2>3, <2>6, <2>8, <2>9, <2>10
    <3>3. ~disc'.short => /\ ~disc.short
                          /\ discovery!Index!FactsIn(IndexedTo(disc) + 1, ld.to) \subseteq disc'.wallets
      BY <2>3, <2>5, <2>6, <2>7, <2>8, <2>9
    <3> QED
      BY <2>8, <3>1, <3>2, <3>3 DEF discovery!Index!Learn, IndexedTo
  <2> QED
    BY <2>11 DEF discovery!Index!Next
<1> QED
  BY <1>3, <1>4

\* every other step leaves the index alone, or forgets it
LEMMA DiscoveryIndexes ==
  ASSUME DiscoveryInv, discovery!Next
  PROVE  [discovery!Index!Next]_<<IndexedTo(disc), disc.wallets, ~disc.short>>
<1>1. CASE UNCHANGED disc
  BY <1>1, IndexRests
<1>2. ASSUME NEW r \in Loads, discovery!Extend(r)
      PROVE  [discovery!Index!Next]_<<IndexedTo(disc), disc.wallets, ~disc.short>>
  <2>1. CASE disc.live
    BY <1>2, <2>1, IndexRests DEF discovery!Extend
  <2>2. CASE ~disc.live
    <3>1. disc.scannedTo = 0 /\ disc.wallets = {} /\ disc.short = FALSE
      BY <2>2 DEF DiscoveryInv, DiscoveryOK, DiscoveryRecord
    <3>2. disc' = [live |-> TRUE, gen |-> disc.gen + 1, scannedTo |-> 0, wallets |-> {}, short |-> FALSE]
      BY <1>2, <2>2 DEF discovery!Extend
    <3>3. disc'.scannedTo = 0 /\ disc'.wallets = {} /\ disc'.short = FALSE
      BY <3>2
    <3> QED
      BY <3>1, <3>3, IndexRests
  <2> QED
    BY <2>1, <2>2
<1>3. ASSUME NEW r \in Loads, discovery!ProofFails(r)
      PROVE  [discovery!Index!Next]_<<IndexedTo(disc), disc.wallets, ~disc.short>>
  <2>1. CASE UNCHANGED disc
    BY <2>1, IndexRests
  <2>2. CASE disc' = discovery!Dropped
    <3>1. disc' = [disc EXCEPT !.live = FALSE, !.scannedTo = 0, !.wallets = {}, !.short = FALSE]
      BY <2>2 DEF discovery!Dropped
    <3>2. disc'.scannedTo = 0 /\ disc'.wallets = {} /\ disc'.short = FALSE
      BY <3>1 DEF DiscoveryInv, DiscoveryRecord
    <3>3. discovery!Index!Forget
      BY <3>2 DEF discovery!Index!Forget
    <3> QED
      BY <3>3 DEF discovery!Index!Next
  <2> QED
    BY <1>3, <2>1, <2>2 DEF discovery!ProofFails
<1>4. ASSUME NEW r \in Loads, discovery!WholeAnswer(r) \/ discovery!CappedAnswer(r)
                                 \/ discovery!TooLargeAnswer(r) \/ discovery!ShortAnswer(r)
      PROVE  UNCHANGED disc
  BY <1>4 DEF discovery!WholeAnswer, discovery!CappedAnswer, discovery!TooLargeAnswer,
              discovery!ShortAnswer, discovery!Accept
<1>5. ASSUME NEW r \in Loads, \/ discovery!Start(r) \/ discovery!ReadBlock(r)
                                 \/ discovery!NothingFinalized(r) \/ discovery!Rebuilding(r)
                                 \/ discovery!FailedRead(r) \/ discovery!Publish(r)
      PROVE  UNCHANGED disc
  BY <1>5 DEF discovery!Start, discovery!ReadBlock, discovery!NothingFinalized, discovery!Rebuilding,
              discovery!FailedRead, discovery!Publish
<1>6. ASSUME discovery!Finalize \/ discovery!Tick
      PROVE  UNCHANGED disc
  BY <1>6 DEF discovery!Finalize, discovery!Tick
<1> QED
  BY <1>1, <1>2, <1>3, <1>4, <1>5, <1>6, CommitLearns DEF discovery!Next, discovery!Progress

\* only a load whose own proof failed gives up a live discovery
LEMMA GivesUpItsOwn ==
  ASSUME DiscoveryInv, discovery!Next, disc.live, ~(disc'.live /\ disc'.gen = disc.gen)
  PROVE  \E r \in Loads : load[r].pc = "onchain" /\ load[r].gen = disc.gen
<1>1. ASSUME NEW r \in Loads, discovery!Extend(r)
      PROVE  UNCHANGED disc
  BY <1>1 DEF discovery!Extend
<1>2. ASSUME NEW r \in Loads, discovery!Commit(r)
      PROVE  disc'.live /\ disc'.gen = disc.gen
  <2>1. CASE UNCHANGED disc
    BY <2>1
  <2>2. ASSUME NEW wallets, NEW to, NEW cut,
               disc' = [disc EXCEPT !.wallets = wallets, !.scannedTo = to, !.short = cut]
        PROVE  disc'.live /\ disc'.gen = disc.gen
    BY <2>2 DEF DiscoveryInv, DiscoveryRecord
  <2>3. \/ UNCHANGED disc
        \/ disc' = [disc EXCEPT !.wallets = disc.wallets \union load[r].got, !.scannedTo = load[r].to,
                                !.short = @ \/ load[r].cut]
    BY <1>2 DEF discovery!Commit
  <2> QED
    BY <2>1, <2>2, <2>3
<1>3. ASSUME NEW r \in Loads, discovery!ProofFails(r)
      PROVE  UNCHANGED disc \/ (load[r].pc = "onchain" /\ load[r].gen = disc.gen)
  BY <1>3 DEF discovery!ProofFails, discovery!SameDiscovery
<1>4. ASSUME NEW r \in Loads, discovery!WholeAnswer(r) \/ discovery!CappedAnswer(r)
                                 \/ discovery!TooLargeAnswer(r) \/ discovery!ShortAnswer(r)
      PROVE  UNCHANGED disc
  BY <1>4 DEF discovery!WholeAnswer, discovery!CappedAnswer, discovery!TooLargeAnswer,
              discovery!ShortAnswer, discovery!Accept
<1>5. ASSUME NEW r \in Loads, \/ discovery!Start(r) \/ discovery!ReadBlock(r)
                                 \/ discovery!NothingFinalized(r) \/ discovery!Rebuilding(r)
                                 \/ discovery!FailedRead(r) \/ discovery!Publish(r)
      PROVE  UNCHANGED disc
  BY <1>5 DEF discovery!Start, discovery!ReadBlock, discovery!NothingFinalized, discovery!Rebuilding,
              discovery!FailedRead, discovery!Publish
<1>6. ASSUME discovery!Finalize \/ discovery!Tick
      PROVE  UNCHANGED disc
  BY <1>6 DEF discovery!Finalize, discovery!Tick
<1> QED
  BY <1>1, <1>2, <1>3, <1>4, <1>5, <1>6 DEF discovery!Next, discovery!Progress

\* The discovery is a progressive index: what it has scanned it has, and no load
\* undoes the progress of another (ImplementsIndex).
LEMMA DiscoveryIsIndex == Spec => discovery!ImplementsIndex
<1>1. Init => discovery!Index!Init
  BY DEF Init, discovery!Init, discovery!AtRest, discovery!NoDiscovery, discovery!Index!Init
<1>2. ServiceInv /\ [Next]_vars => [discovery!Index!Next]_<<IndexedTo(disc), disc.wallets, ~disc.short>>
  <2> SUFFICES ASSUME ServiceInv, [Next]_vars
               PROVE  [discovery!Index!Next]_<<IndexedTo(disc), disc.wallets, ~disc.short>>
    OBVIOUS
  <2>1. CASE DiscoveryStep
    BY <2>1, DiscoveryIndexes DEF ServiceInv, DiscoveryStep
  <2>2. CASE UNCHANGED discoveryVars
    BY <2>2, IndexRests DEF discoveryVars
  <2> QED
    BY <2>1, <2>2 DEF Next, MirrorStep, RankingStep, ServingStep, vars
<1> QED
  BY <1>1, <1>2, AlwaysServiceInv, PTL
    DEF Spec, discovery!ImplementsIndex, discovery!Index!Spec, IndexedTo

----------------------------------------------------------------------------
(* The invariant of the mirror *)

\* the fields of a history and of a request; their contents are typed below as far as needed
HistoryFields(h) ==
  h = [changes |-> h.changes, scannedTo |-> h.scannedTo, epochs |-> h.epochs,
       epochsScannedTo |-> h.epochsScannedTo, epochsVerifiedTo |-> h.epochsVerifiedTo,
       owners |-> h.owners, snap |-> h.snap]
RequestFields(q) ==
  q = [pc |-> q.pc, who |-> q.who, asOf |-> q.asOf, left |-> q.left, leader |-> q.leader,
       stage |-> q.stage, gen |-> q.gen, chunks |-> q.chunks, reconciled |-> q.reconciled,
       snap |-> q.snap]

\* a scan that began at `first` has reached block b
ScannedFrom(first, b) == b \in 0..Tip /\ (b # 0 => first <= b)
GoodHistory(h) ==
  /\ HistoryFields(h) /\ h.snap.asOf \in Nat
  /\ ScannedFrom(From, h.scannedTo) /\ ScannedFrom(Deployment, h.epochsScannedTo)

Leads(q, r) == q.pc = "wait" /\ q.leader = r

HistoriesOK ==
  /\ Len(objs) \in Nat /\ DOMAIN objs = 1..Len(objs) /\ objs \in Seq({objs[g] : g \in 1..Len(objs)})
  /\ \A g \in 1..Len(objs) : GoodHistory(objs[g])

\* every build in the queue is of the request that leads it, at a block of its own
BuildsQueued ==
  /\ queue \in Seq(Requests)
  /\ \A i, j \in 1..Len(queue) : queue[i] = queue[j] => i = j
  /\ \A i \in 1..Len(queue) : Leads(req[queue[i]], queue[i]) /\ req[queue[i]].asOf \in From..Tip

\* only the first build of the queue is under way, on the current history or on one
\* that was dropped meanwhile, towards a block that its history has no snapshot of
UnderWay(q, r) ==
  /\ queue # <<>> /\ Head(queue) = r
  /\ q.gen \in 1..Len(objs) /\ current \in {0, q.gen}
  /\ objs[q.gen].snap.asOf < q.asOf

MirrorInv ==
  /\ head \in Int /\ head <= Tip
  /\ current \in 0..Len(objs)
  /\ req = [r \in Requests |-> req[r]] /\ \A r \in Requests : RequestFields(req[r])
  /\ HistoriesOK /\ BuildsQueued
  /\ \A r \in Requests : req[r].stage # "none" => UnderWay(req[r], r)

\* what the constants of the mirror are
LEMMA MarketIs ==
  /\ Deployment \in Nat \ {0} /\ Tip \in Nat \ {0} /\ From \in Nat \ {0} /\ Chunk \in Nat \ {0}
  /\ Deployment <= From /\ From <= Tip
  /\ \A c \in Changes : c.block \in From..Tip
BY ServicesOK DEF mirror!HistoryOK

\* the build that is under way is the first of the queue
LEMMA HeadLeads ==
  ASSUME MirrorInv, NEW r \in Requests, queue # <<>>, Head(queue) = r
  PROVE  /\ 1 \in 1..Len(queue) /\ queue[1] = r /\ Leads(req[r], r) /\ req[r].asOf \in From..Tip
         /\ Len(queue) \in Nat /\ \A i \in 1..Len(queue) : queue[i] \in Requests /\ (i # 1 => queue[i] # r)
<1>1. queue \in Seq(Requests)
  BY DEF MirrorInv, BuildsQueued
<1>2. Len(queue) \in Nat /\ 1 \in 1..Len(queue) /\ Head(queue) = queue[1]
      /\ \A i \in 1..Len(queue) : queue[i] \in Requests
  BY <1>1, LenProperties, EmptySeq, ElementOfSeq
<1> QED
  BY <1>2 DEF MirrorInv, BuildsQueued

\* a sequence is one over its own elements
LEMMA SeqOverItself ==
  ASSUME NEW S, NEW s \in Seq(S)
  PROVE  s \in Seq({s[k] : k \in 1..Len(s)})
<1> DEFINE T == {s[k] : k \in 1..Len(s)}
<1>1. s \in [1..Len(s) -> S] /\ Len(s) \in Nat
  BY LenProperties
<1>2. s \in [1..Len(s) -> T]
  BY <1>1
<1> HIDE DEF T
<1>3. s \in Seq(T)
  BY <1>1, <1>2
<1> QED
  BY <1>3 DEF T

\* a history is replaced by one that has come further
LEMMA HistoryPut ==
  ASSUME HistoriesOK, NEW g \in 1..Len(objs), NEW h, GoodHistory(h), objs' = [objs EXCEPT ![g] = h]
  PROVE  HistoriesOK' /\ Len(objs') = Len(objs) /\ \A k \in 1..Len(objs) : objs'[k] = IF k = g THEN h ELSE objs[k]
<1> DEFINE S == {objs[k] : k \in 1..Len(objs)} \cup {h}
<1>1. objs \in Seq(S) /\ h \in S
  BY DEF HistoriesOK
<1> HIDE DEF S
<1>2. objs' \in Seq(S) /\ Len(objs') = Len(objs)
      /\ \A k \in 1..Len(objs) : objs'[k] = IF k = g THEN h ELSE objs[k]
  BY <1>1, ExceptSeq
<1>3. Len(objs') \in Nat /\ DOMAIN objs' = 1..Len(objs')
  BY <1>2 DEF HistoriesOK
<1>4. objs' \in Seq({objs'[k] : k \in 1..Len(objs')})
  <2>1. PICK new : new = objs'
    OBVIOUS
  <2>2. new \in Seq(S)
    BY <1>2, <2>1
  <2>3. new \in Seq({new[k] : k \in 1..Len(new)})
    BY <2>2, SeqOverItself
  <2> QED
    BY <2>1, <2>3
<1>5. \A k \in 1..Len(objs') : GoodHistory(objs'[k])
  BY <1>2 DEF HistoriesOK
<1> QED
  BY <1>2, <1>3, <1>4, <1>5 DEF HistoriesOK, GoodHistory, HistoryFields, ScannedFrom

\* a history is begun
LEMMA HistoryBegun ==
  ASSUME HistoriesOK, objs' = Append(objs, mirror!EmptyHistory)
  PROVE  /\ HistoriesOK' /\ Len(objs') = Len(objs) + 1 /\ objs'[Len(objs) + 1] = mirror!EmptyHistory
         /\ \A k \in 1..Len(objs) : objs'[k] = objs[k]
<1> DEFINE h == mirror!EmptyHistory
           S == {objs[k] : k \in 1..Len(objs)} \cup {h}
<1>1. objs \in Seq(S) /\ h \in S /\ Len(objs) \in Nat
  BY DEF HistoriesOK
<1>2. GoodHistory(h)
  <2>1. h.snap = mirror!NoSnap /\ h.snap.asOf = 0 /\ h.scannedTo = 0 /\ h.epochsScannedTo = 0
    BY DEF mirror!EmptyHistory, mirror!NoSnap
  <2>2. HistoryFields(h)
    BY DEF mirror!EmptyHistory, HistoryFields
  <2> QED
    BY <2>1, <2>2, MarketIs DEF GoodHistory, ScannedFrom
<1> HIDE DEF S, h
<1>3. /\ objs' \in Seq(S) /\ Len(objs') = Len(objs) + 1 /\ objs'[Len(objs) + 1] = h
      /\ \A k \in 1..Len(objs) : objs'[k] = objs[k]
  BY <1>1, AppendProperties DEF h
<1>4. Len(objs') \in Nat /\ DOMAIN objs' = 1..Len(objs')
  BY <1>1, <1>3, LenProperties
<1>5. objs' \in Seq({objs'[k] : k \in 1..Len(objs')})
  BY <1>3, SeqOverItself
<1>6. ASSUME NEW k \in 1..Len(objs')
      PROVE  GoodHistory(objs'[k])
  BY <1>1, <1>2, <1>3 DEF HistoriesOK
<1> QED
  BY <1>3, <1>4, <1>5, <1>6 DEF HistoriesOK, GoodHistory, HistoryFields, ScannedFrom, h

LEMMA IdleRequest ==
  /\ RequestFields(mirror!Idle) /\ mirror!Idle.stage = "none"
BY DEF mirror!Idle, RequestFields

\* a request that does not wait has no build under way
LEMMA NoStage ==
  ASSUME MirrorInv, NEW r \in Requests, req[r].pc # "wait"
  PROVE  req[r].stage = "none" /\ \A i \in 1..Len(queue) : queue[i] # r
<1>1. \A i \in 1..Len(queue) : queue[i] # r
  BY DEF MirrorInv, BuildsQueued, Leads
<1>2. SUFFICES ASSUME req[r].stage # "none" PROVE FALSE
  BY <1>1
<1>3. queue # <<>> /\ Head(queue) = r
  BY <1>2 DEF MirrorInv, UnderWay
<1> QED
  BY <1>3, HeadLeads DEF Leads

\* a request that does not wait moves by itself; an answer may have dropped the history
LEMMA RequestMoves ==
  ASSUME MirrorInv, NEW r \in Requests, req[r].pc # "wait", NEW q, RequestFields(q), q.stage = "none",
         req' = [req EXCEPT ![r] = q], UNCHANGED <<head, objs, queue>>, current' \in {current, 0}
  PROVE  MirrorInv'
<1>1. \A p \in Requests : req'[p] = IF p = r THEN q ELSE req[p]
  BY DEF MirrorInv
<1>2. req' = [p \in Requests |-> req'[p]] /\ \A p \in Requests : RequestFields(req'[p])
  BY <1>1 DEF MirrorInv
<1>3. \A i \in 1..Len(queue) : queue[i] \in Requests /\ queue[i] # r
  BY NoStage, ElementOfSeq DEF MirrorInv, BuildsQueued
<1>4. BuildsQueued'
  BY <1>1, <1>3 DEF MirrorInv, BuildsQueued, Leads
<1>5. HistoriesOK'
  BY DEF MirrorInv, HistoriesOK, GoodHistory, HistoryFields, ScannedFrom
<1>6. ASSUME NEW p \in Requests, req'[p].stage # "none"
      PROVE  UnderWay(req[p], p)'
  <2>1. p # r /\ req'[p] = req[p] /\ UnderWay(req[p], p)
    BY <1>1, <1>6 DEF MirrorInv
  <2> QED
    BY <2>1 DEF UnderWay
<1>7. current' \in 0..Len(objs')
  BY DEF MirrorInv, HistoriesOK
<1> QED
  BY <1>2, <1>4, <1>5, <1>6, <1>7 DEF MirrorInv, RequestFields

\* a request starts a build of its own at the end of the queue
LEMMA RequestJoins ==
  ASSUME MirrorInv, NEW r \in Requests, req[r].pc # "wait", NEW q, RequestFields(q), q.stage = "none",
         Leads(q, r), q.asOf \in From..Tip,
         req' = [req EXCEPT ![r] = q], queue' = Append(queue, r), UNCHANGED <<head, objs, current>>
  PROVE  MirrorInv'
<1>1. \A p \in Requests : req'[p] = IF p = r THEN q ELSE req[p]
  BY DEF MirrorInv
<1>2. req' = [p \in Requests |-> req'[p]] /\ \A p \in Requests : RequestFields(req'[p])
  BY <1>1 DEF MirrorInv
<1>3. /\ queue \in Seq(Requests) /\ Len(queue) \in Nat
      /\ \A i \in 1..Len(queue) : queue[i] \in Requests /\ queue[i] # r
  BY NoStage, ElementOfSeq, LenProperties DEF MirrorInv, BuildsQueued
<1>4. /\ queue' \in Seq(Requests) /\ Len(queue') = Len(queue) + 1
      /\ \A i \in 1..Len(queue) : queue'[i] = queue[i]
      /\ queue'[Len(queue) + 1] = r
  BY <1>3, AppendProperties
<1>5. ASSUME NEW i \in 1..Len(queue'), i # Len(queue) + 1
      PROVE  i \in 1..Len(queue)
  BY <1>3, <1>4, <1>5
<1>6. \A i, j \in 1..Len(queue') : queue'[i] = queue'[j] => i = j
  BY <1>3, <1>4, <1>5 DEF MirrorInv, BuildsQueued
<1>7. ASSUME NEW i \in 1..Len(queue')
      PROVE  Leads(req'[queue'[i]], queue'[i]) /\ req'[queue'[i]].asOf \in From..Tip
  <2>1. CASE i = Len(queue) + 1
    BY <1>1, <1>4, <2>1
  <2>2. CASE i # Len(queue) + 1
    <3>1. i \in 1..Len(queue) /\ queue'[i] = queue[i] /\ req'[queue'[i]] = req[queue[i]]
      BY <1>1, <1>3, <1>4, <1>5, <2>2
    <3> QED
      BY <3>1 DEF MirrorInv, BuildsQueued
  <2> QED
    BY <2>1, <2>2
<1>8. BuildsQueued'
  BY <1>4, <1>6, <1>7 DEF BuildsQueued, Leads
<1>9. HistoriesOK'
  BY DEF MirrorInv, HistoriesOK, GoodHistory, HistoryFields, ScannedFrom
<1>10. ASSUME NEW p \in Requests, req'[p].stage # "none"
       PROVE  UnderWay(req[p], p)'
  <2>1. p # r /\ req'[p] = req[p] /\ UnderWay(req[p], p)
    BY <1>1, <1>10 DEF MirrorInv
  <2>2. queue # <<>> /\ Head(queue) = p
    BY <2>1 DEF UnderWay
  <2>3. queue' # <<>> /\ Head(queue') = p
    <3>1. 1 \in 1..Len(queue) /\ queue[1] = p
      BY <2>2, HeadLeads
    <3>2. queue' # <<>> /\ Head(queue') = queue'[1]
      BY <1>3, <1>4, EmptySeq
    <3> QED
      BY <1>4, <3>1, <3>2
  <2> QED
    BY <2>1, <2>3 DEF UnderWay
<1> QED
  BY <1>2, <1>8, <1>9, <1>10 DEF MirrorInv, RequestFields

\* the build under way goes a step on: its history comes further, or begins
LEMMA BuildMoves ==
  ASSUME MirrorInv, NEW r \in Requests, queue # <<>>, Head(queue) = r,
         NEW q, RequestFields(q), q.pc = req[r].pc, q.leader = req[r].leader, q.asOf = req[r].asOf,
         req' = [req EXCEPT ![r] = q], UNCHANGED <<head, queue>>,
         HistoriesOK', q.gen \in 1..Len(objs'), current' \in {0, q.gen},
         objs'[q.gen].snap.asOf < q.asOf
  PROVE  MirrorInv'
<1>1. \A p \in Requests : req'[p] = IF p = r THEN q ELSE req[p]
  BY DEF MirrorInv
<1>2. req' = [p \in Requests |-> req'[p]] /\ \A p \in Requests : RequestFields(req'[p])
  BY <1>1 DEF MirrorInv
<1>3. \A i \in 1..Len(queue) : queue[i] \in Requests
  BY ElementOfSeq DEF MirrorInv, BuildsQueued
<1>4. BuildsQueued'
  BY <1>1, <1>3 DEF MirrorInv, BuildsQueued, Leads
<1>5. ASSUME NEW p \in Requests, req'[p].stage # "none"
      PROVE  UnderWay(req[p], p)'
  <2>1. p = r
    BY <1>1, <1>5 DEF MirrorInv, UnderWay
  <2> QED
    BY <1>1, <2>1 DEF UnderWay
<1>6. current' \in 0..Len(objs')
  BY DEF HistoriesOK
<1> QED
  BY <1>2, <1>4, <1>5, <1>6 DEF MirrorInv, RequestFields

\* a build settles: its request and all who share it resume, with a snapshot or without
LEMMA BuildSettles ==
  ASSUME MirrorInv, NEW r \in Requests, queue # <<>>, Head(queue) = r, NEW snap, mirror!Settle(r, snap),
         current' \in {current, 0}, HistoriesOK', Len(objs') = Len(objs), UNCHANGED head
  PROVE  MirrorInv'
<1>1. /\ queue' = Tail(queue)
      /\ req' = [q \in Requests |->
                   IF q \notin mirror!Waiters(r) THEN req[q]
                   ELSE IF snap = mirror!NoSnap THEN mirror!Idle
                   ELSE [req[q] EXCEPT !.pc = "check", !.snap = snap, !.stage = "none", !.leader = "none"]]
  BY DEF mirror!Settle
<1>2. /\ queue \in Seq(Requests) /\ Len(queue) \in Nat /\ queue[1] = r /\ 1 \in 1..Len(queue)
      /\ \A i \in 1..Len(queue) : queue[i] \in Requests /\ (i # 1 => queue[i] # r)
      /\ Leads(req[r], r)
  BY HeadLeads DEF MirrorInv, BuildsQueued
<1>3. \A q \in Requests : q \in mirror!Waiters(r) <=> Leads(req[q], r)
  BY DEF mirror!Waiters, Leads
<1>4. ASSUME NEW q \in Requests
      PROVE  RequestFields(req'[q]) /\ req'[q].stage = "none"
  <2>1. PICK p : p = req[q]
    OBVIOUS
  <2>2. RequestFields(p)
    BY <2>1 DEF MirrorInv
  <2>3. CASE q \notin mirror!Waiters(r)
    <3>1. q # r /\ req'[q] = p
      BY <1>1, <1>2, <1>3, <2>1, <2>3
    <3>2. p.stage = "none"
      BY <2>1, <3>1 DEF MirrorInv, UnderWay
    <3> QED
      BY <2>2, <3>1, <3>2
  <2>4. CASE q \in mirror!Waiters(r) /\ snap = mirror!NoSnap
    <3>1. req'[q] = mirror!Idle
      BY <1>1, <2>4
    <3> QED
      BY <3>1, IdleRequest
  <2>5. CASE q \in mirror!Waiters(r) /\ snap # mirror!NoSnap
    <3>1. req'[q] = [p EXCEPT !.pc = "check", !.snap = snap, !.stage = "none", !.leader = "none"]
      BY <1>1, <2>1, <2>5
    <3>2. req'[q] = [pc |-> "check", who |-> p.who, asOf |-> p.asOf, left |-> p.left, leader |-> "none",
                     stage |-> "none", gen |-> p.gen, chunks |-> p.chunks, reconciled |-> p.reconciled,
                     snap |-> snap]
      BY <2>2, <3>1 DEF RequestFields
    <3> QED
      BY <3>2 DEF RequestFields
  <2> QED
    BY <2>3, <2>4, <2>5
<1>5. /\ queue' \in Seq(Requests) /\ Len(queue') = Len(queue) - 1
      /\ \A i \in 1..Len(queue') : queue'[i] = queue[i + 1]
  BY <1>1, <1>2, HeadTailProperties
<1>6. ASSUME NEW i \in 1..Len(queue')
      PROVE  i + 1 \in 1..Len(queue) /\ queue'[i] # r /\ queue'[i] \in Requests
  <2>1. i + 1 \in 1..Len(queue) /\ i + 1 # 1
    BY <1>2, <1>5
  <2> QED
    BY <1>2, <1>5, <2>1
<1>7. \A i, j \in 1..Len(queue') : queue'[i] = queue'[j] => i = j
  <2>1. SUFFICES ASSUME NEW i \in 1..Len(queue'), NEW j \in 1..Len(queue'), queue'[i] = queue'[j]
                 PROVE  i = j
    OBVIOUS
  <2>2. i + 1 \in 1..Len(queue) /\ j + 1 \in 1..Len(queue) /\ queue[i + 1] = queue[j + 1]
    BY <1>5, <1>6, <2>1
  <2>3. i + 1 = j + 1
    BY <2>2 DEF MirrorInv, BuildsQueued
  <2> QED
    BY <2>3
<1>8. ASSUME NEW i \in 1..Len(queue')
      PROVE  Leads(req'[queue'[i]], queue'[i]) /\ req'[queue'[i]].asOf \in From..Tip
  <2>1. PICK q \in Requests : q = queue'[i] /\ q # r
    BY <1>6
  <2>2. Leads(req[q], q) /\ req[q].asOf \in From..Tip
    BY <1>5, <1>6, <2>1 DEF MirrorInv, BuildsQueued
  <2>3. q \notin mirror!Waiters(r)
    BY <1>3, <2>1, <2>2 DEF Leads
  <2>4. req'[q] = req[q]
    BY <1>1, <2>3
  <2> QED
    BY <2>1, <2>2, <2>4
<1>9. BuildsQueued'
  BY <1>5, <1>7, <1>8 DEF BuildsQueued, Leads
<1>10. req' = [q \in Requests |-> req'[q]]
  BY <1>1
<1>11. current' \in 0..Len(objs')
  BY DEF MirrorInv, HistoriesOK
<1> QED
  BY <1>4, <1>9, <1>10, <1>11 DEF MirrorInv, RequestFields

LEMMA HistoriesAre ==
  ASSUME HistoriesOK
  PROVE  objs = [g \in 1..Len(objs) |-> objs[g]]
BY DEF HistoriesOK

LEMMA HistoriesRest ==
  ASSUME HistoriesOK, objs' = objs
  PROVE  HistoriesOK'
BY DEF HistoriesOK, GoodHistory, HistoryFields, ScannedFrom

\* how far a history's scans have come, and what a step may make of the current history
ScansOf(h) == <<h.epochs, h.epochsScannedTo, h.changes, h.scannedTo>>
EpochsIn(from, to) == mirror!EpochBlocks \cap (from .. to)
ChangesIn(from, to) == {c \in Changes : c.block \in from .. to}
Whole(got, truth) == ~blunder' => ~blunder /\ got = truth
EpochsRead(h, k) ==
  \E to \in mirror!EpochFrom(h) .. Tip : \E got \in SUBSET EpochsIn(mirror!EpochFrom(h), to) :
    /\ ScansOf(k) = <<h.epochs \union got, to, h.changes, h.scannedTo>>
    /\ Whole(got, EpochsIn(mirror!EpochFrom(h), to))
EventsRead(h, k) ==
  \E to \in mirror!CollateralFrom(h) .. Tip : \E got \in SUBSET ChangesIn(mirror!CollateralFrom(h), to) :
    /\ ScansOf(k) = <<h.epochs, h.epochsScannedTo, h.changes \union got, to>>
    /\ Whole(got, ChangesIn(mirror!CollateralFrom(h), to))

Dropped == current' = 0
Begun == current = 0 /\ current' # 0 /\ objs'[current'] = mirror!EmptyHistory /\ ~blunder'
Continued ==
  /\ current # 0 /\ current' = current /\ objs[current].snap.asOf <= objs'[current].snap.asOf
  /\ \/ ScansOf(objs'[current]) = ScansOf(objs[current]) /\ (blunder' <=> blunder)
     \/ EpochsRead(objs[current], objs'[current])
     \/ EventsRead(objs[current], objs'[current])
HistoryStep == Dropped \/ Begun \/ Continued

\* a step that leaves the histories alone
LEMMA HistoryRests ==
  ASSUME MirrorInv, UNCHANGED <<objs, current, blunder>>
  PROVE  HistoryStep
<1>1. CASE current = 0
  BY <1>1 DEF HistoryStep, Dropped
<1>2. CASE current # 0
  <2>1. current \in 1..Len(objs)
    BY <1>2 DEF MirrorInv, HistoriesOK
  <2>2. objs[current].snap.asOf \in Nat
    BY <2>1 DEF MirrorInv, HistoriesOK, GoodHistory
  <2> QED
    BY <1>2, <2>2 DEF HistoryStep, Continued, ScansOf
<1> QED
  BY <1>1, <1>2

LEMMA MirrorStarts ==
  ASSUME mirror!Init
  PROVE  MirrorInv
<1>1. /\ head = From - 1 /\ queue = <<>> /\ objs = <<>> /\ current = 0
      /\ req = [r \in Requests |-> mirror!Idle]
  BY DEF mirror!Init, mirror!AtRest
<1>2. HistoriesOK
  <2>1. Len(objs) = 0 /\ DOMAIN objs = 1..Len(objs) /\ objs \in Seq({objs[g] : g \in 1..Len(objs)})
    BY <1>1
  <2> QED
    BY <2>1 DEF HistoriesOK
<1>3. BuildsQueued
  <2>1. Len(queue) = 0 /\ queue \in Seq(Requests)
    BY <1>1
  <2> QED
    BY <2>1 DEF BuildsQueued
<1>4. \A r \in Requests : req[r] = mirror!Idle
  BY <1>1
<1>5. req = [r \in Requests |-> req[r]]
  BY <1>1
<1>6. current \in 0..Len(objs) /\ head \in Int /\ head <= Tip
  BY <1>1, MarketIs
<1> QED
  BY <1>2, <1>3, <1>4, <1>5, <1>6, IdleRequest DEF MirrorInv

----------------------------------------------------------------------------
(* What each step of the mirror does to the invariant and to the current history *)

LEMMA AskKept ==
  ASSUME MirrorInv, NEW r \in Requests, NEW who, mirror!Start(r, who)
  PROVE  MirrorInv' /\ HistoryStep
<1> DEFINE q == [pc |-> "head", who |-> who, asOf |-> 0, left |-> Budget, leader |-> "none",
                 stage |-> "none", gen |-> 0, chunks |-> 0, reconciled |-> 0, snap |-> mirror!NoSnap]
<1>1. RequestFields(q) /\ q.stage = "none"
  BY DEF RequestFields
<1>2. req[r].pc # "wait" /\ UNCHANGED <<head, objs, queue, current, blunder>>
  BY DEF mirror!Start
<1>3. req' = [req EXCEPT ![r] = q]
  <2>1. req' = [req EXCEPT ![r] = [mirror!Idle EXCEPT !.pc = "head", !.who = who, !.left = Budget]]
    BY DEF mirror!Start
  <2>2. [mirror!Idle EXCEPT !.pc = "head", !.who = who, !.left = Budget] = q
    <3>1. PICK new : new = [mirror!Idle EXCEPT !.pc = "head", !.who = who, !.left = Budget]
      OBVIOUS
    <3>2. new = q
      BY <3>1 DEF mirror!Idle
    <3> QED
      BY <3>1, <3>2
  <2> QED
    BY <2>1, <2>2
<1> HIDE DEF q
<1> QED
  BY <1>1, <1>2, <1>3, RequestMoves, HistoryRests

LEMMA HeadReadKept ==
  ASSUME MirrorInv, NEW r \in Requests, mirror!ReadHead(r)
  PROVE  MirrorInv' /\ HistoryStep
<1>1. req[r].pc # "wait" /\ UNCHANGED <<head, objs, current, blunder>>
  BY DEF mirror!ReadHead
<1>2. PICK b \in (head - MaxLag)..head :
        /\ b >= From
        /\ \/ req' = [req EXCEPT ![r].pc = "check", ![r].snap = mirror!Current] /\ UNCHANGED queue
           \/ req' = [req EXCEPT ![r].pc = "wait", ![r].leader = inflight.by] /\ UNCHANGED queue
           \/ /\ req' = [req EXCEPT ![r].pc = "wait", ![r].leader = r, ![r].asOf = b]
              /\ queue' = Append(queue, r)
  BY DEF mirror!ReadHead
<1>3. b \in From..Tip
  BY <1>2, MarketIs, ServicesOK DEF MirrorInv, mirror!HistoryOK
<1>4. PICK p : p = req[r]
  OBVIOUS
<1>5. RequestFields(p) /\ p.stage = "none"
  BY <1>1, <1>4, NoStage DEF MirrorInv
<1>6. ASSUME NEW pc, NEW leader, NEW asOf, NEW snap
      PROVE  LET q == [pc |-> pc, who |-> p.who, asOf |-> asOf, left |-> p.left, leader |-> leader,
                       stage |-> p.stage, gen |-> p.gen, chunks |-> p.chunks,
                       reconciled |-> p.reconciled, snap |-> snap]
             IN  RequestFields(q) /\ q.stage = "none"
  BY <1>5 DEF RequestFields
<1>7. CASE req' = [req EXCEPT ![r].pc = "check", ![r].snap = mirror!Current] /\ UNCHANGED queue
  <2> DEFINE q == [pc |-> "check", who |-> p.who, asOf |-> p.asOf, left |-> p.left, leader |-> p.leader,
                   stage |-> p.stage, gen |-> p.gen, chunks |-> p.chunks,
                   reconciled |-> p.reconciled, snap |-> mirror!Current]
  <2>1. req' = [req EXCEPT ![r] = q]
    <3>1. [p EXCEPT !.pc = "check", !.snap = mirror!Current] = q
      <4>1. PICK new : new = [p EXCEPT !.pc = "check", !.snap = mirror!Current]
        OBVIOUS
      <4>2. new = q
        BY <4>1, <1>5 DEF RequestFields
      <4> QED
        BY <4>1, <4>2
    <3>2. req' = [req EXCEPT ![r] = [p EXCEPT !.pc = "check", !.snap = mirror!Current]]
      BY <1>4, <1>7 DEF MirrorInv
    <3> QED
      BY <3>1, <3>2
  <2>2. RequestFields(q) /\ q.stage = "none"
    BY <1>6
  <2> HIDE DEF q
  <2> QED
    BY <1>1, <1>7, <2>1, <2>2, RequestMoves, HistoryRests
<1>8. CASE req' = [req EXCEPT ![r].pc = "wait", ![r].leader = inflight.by] /\ UNCHANGED queue
  <2> DEFINE q == [pc |-> "wait", who |-> p.who, asOf |-> p.asOf, left |-> p.left,
                   leader |-> inflight.by, stage |-> p.stage, gen |-> p.gen, chunks |-> p.chunks,
                   reconciled |-> p.reconciled, snap |-> p.snap]
  <2>1. req' = [req EXCEPT ![r] = q]
    <3>1. [p EXCEPT !.pc = "wait", !.leader = inflight.by] = q
      <4>1. PICK new : new = [p EXCEPT !.pc = "wait", !.leader = inflight.by]
        OBVIOUS
      <4>2. new = q
        BY <4>1, <1>5 DEF RequestFields
      <4> QED
        BY <4>1, <4>2
    <3>2. req' = [req EXCEPT ![r] = [p EXCEPT !.pc = "wait", !.leader = inflight.by]]
      BY <1>4, <1>8 DEF MirrorInv
    <3> QED
      BY <3>1, <3>2
  <2>2. RequestFields(q) /\ q.stage = "none"
    BY <1>6
  <2> HIDE DEF q
  <2> QED
    BY <1>1, <1>8, <2>1, <2>2, RequestMoves, HistoryRests
<1>9. CASE /\ req' = [req EXCEPT ![r].pc = "wait", ![r].leader = r, ![r].asOf = b]
           /\ queue' = Append(queue, r)
  <2> DEFINE q == [pc |-> "wait", who |-> p.who, asOf |-> b, left |-> p.left, leader |-> r,
                   stage |-> p.stage, gen |-> p.gen, chunks |-> p.chunks,
                   reconciled |-> p.reconciled, snap |-> p.snap]
  <2>1. req' = [req EXCEPT ![r] = q]
    <3>1. [p EXCEPT !.pc = "wait", !.leader = r, !.asOf = b] = q
      <4>1. PICK new : new = [p EXCEPT !.pc = "wait", !.leader = r, !.asOf = b]
        OBVIOUS
      <4>2. new = q
        BY <4>1, <1>5 DEF RequestFields
      <4> QED
        BY <4>1, <4>2
    <3>2. req' = [req EXCEPT ![r] = [p EXCEPT !.pc = "wait", !.leader = r, !.asOf = b]]
      BY <1>4, <1>9 DEF MirrorInv
    <3> QED
      BY <3>1, <3>2
  <2>2. RequestFields(q) /\ q.stage = "none" /\ Leads(q, r) /\ q.asOf \in From..Tip
    BY <1>3, <1>6 DEF Leads
  <2> HIDE DEF q
  <2> QED
    BY <1>1, <1>9, <2>1, <2>2, RequestJoins, HistoryRests
<1> QED
  BY <1>2, <1>7, <1>8, <1>9

\* a request is given up before it had a build, or after it
LEMMA GivenUp ==
  ASSUME MirrorInv, NEW r \in Requests, req[r].pc # "wait", req' = [req EXCEPT ![r] = mirror!Idle],
         UNCHANGED <<head, objs, queue>>, current' \in {current, 0},
         current' = current => UNCHANGED blunder
  PROVE  MirrorInv' /\ HistoryStep
<1>1. MirrorInv'
  BY IdleRequest, RequestMoves
<1>2. CASE current' = current
  <2>1. HistoryStep
    BY <1>2, HistoryRests
  <2> QED
    BY <1>1, <2>1
<1>3. CASE current' = 0
  <2>1. HistoryStep
    BY <1>3 DEF HistoryStep, Dropped
  <2> QED
    BY <1>1, <2>1
<1> QED
  BY <1>1, <1>2, <1>3

LEMMA AnswerKept ==
  ASSUME MirrorInv, NEW r \in Requests,
         mirror!NotFinalized(r) \/ mirror!Answer(r) \/ mirror!ReadFails(r)
  PROVE  MirrorInv' /\ HistoryStep
<1>1. req[r].pc # "wait" /\ req' = [req EXCEPT ![r] = mirror!Idle] /\ UNCHANGED <<head, objs, queue, blunder>>
  BY DEF mirror!NotFinalized, mirror!Answer, mirror!ReadFails
<1>2. current' \in {current, 0}
  BY DEF mirror!NotFinalized, mirror!Answer, mirror!ReadFails, mirror!Drop
<1> QED
  BY <1>1, <1>2, GivenUp

\* a build that fails, gives up or is refused; the histories stay as they are
LEMMA BuildEnds ==
  ASSUME MirrorInv, NEW r \in Requests, queue # <<>>, Head(queue) = r, NEW snap, mirror!Settle(r, snap),
         UNCHANGED <<head, objs>>, current' \in {current, 0},
         current' = current /\ current # 0 => UNCHANGED blunder
  PROVE  MirrorInv' /\ HistoryStep
<1>1. HistoriesOK'
  BY HistoriesRest DEF MirrorInv
<1>2. MirrorInv'
  BY <1>1, BuildSettles
<1>3. CASE current' = current /\ current # 0
  <2>1. HistoryStep
    BY <1>3, HistoryRests
  <2> QED
    BY <1>2, <2>1
<1>4. CASE current' = 0
  <2>1. HistoryStep
    BY <1>4 DEF HistoryStep, Dropped
  <2> QED
    BY <1>2, <2>1
<1> QED
  BY <1>2, <1>3, <1>4

\* a build that stops leaves everything as it is
LEMMA StopKept ==
  ASSUME MirrorInv, NEW r \in Requests, queue # <<>>, Head(queue) = r, mirror!NotReady(r)
  PROVE  MirrorInv' /\ HistoryStep
BY BuildEnds DEF mirror!NotReady

\* a build that is refused drops its history, unless that was dropped before
LEMMA RefusalKept ==
  ASSUME MirrorInv, NEW r \in Requests, req[r].stage # "none",
         mirror!Settle(r, mirror!NoSnap), mirror!Drop(req[r].gen), UNCHANGED <<head, objs>>
  PROVE  MirrorInv' /\ HistoryStep
<1>1. UnderWay(req[r], r)
  BY DEF MirrorInv
<1>2. queue # <<>> /\ Head(queue) = r /\ current' = 0
  BY <1>1 DEF UnderWay, mirror!Drop
<1> QED
  BY <1>2, BuildEnds

LEMMA BuildBegins ==
  ASSUME MirrorInv, NEW r \in Requests, mirror!BuildStart(r)
  PROVE  MirrorInv' /\ HistoryStep
<1>1. queue # <<>> /\ Head(queue) = r
  BY DEF mirror!BuildStart, mirror!Running
<1>2. CASE mirror!NotReady(r)
  BY <1>1, <1>2, StopKept
<1>3. CASE mirror!Settle(r, mirror!Current) /\ UNCHANGED <<head, objs, current, blunder>>
  BY <1>1, <1>3, BuildEnds
<1>4. CASE /\ ~mirror!Covered(req[r].asOf)
           /\ objs' = IF current = 0 THEN Append(objs, mirror!EmptyHistory) ELSE objs
           /\ current' = IF current = 0 THEN Len(objs) + 1 ELSE current
           /\ req' = [req EXCEPT ![r].stage = "epochs", ![r].gen = current', ![r].chunks = 0]
           /\ blunder' = (current # 0 /\ blunder)
           /\ UNCHANGED <<head, queue>>
  <2>1. PICK p : p = req[r]
    OBVIOUS
  <2>2. RequestFields(p) /\ p.asOf \in From..Tip
    BY <1>1, <2>1, HeadLeads DEF MirrorInv
  <2> DEFINE q == [pc |-> p.pc, who |-> p.who, asOf |-> p.asOf, left |-> p.left, leader |-> p.leader,
                   stage |-> "epochs", gen |-> current', chunks |-> 0,
                   reconciled |-> p.reconciled, snap |-> p.snap]
  <2>3. req' = [req EXCEPT ![r] = q]
    <3>1. [p EXCEPT !.stage = "epochs", !.gen = current', !.chunks = 0] = q
      <4>1. PICK new : new = [p EXCEPT !.stage = "epochs", !.gen = current', !.chunks = 0]
        OBVIOUS
      <4>2. new = q
        BY <4>1, <2>2 DEF RequestFields
      <4> QED
        BY <4>1, <4>2
    <3>2. req' = [req EXCEPT ![r] = [p EXCEPT !.stage = "epochs", !.gen = current', !.chunks = 0]]
      BY <1>4, <2>1 DEF MirrorInv
    <3> QED
      BY <3>1, <3>2
  <2>4. RequestFields(q) /\ q.pc = p.pc /\ q.leader = p.leader /\ q.asOf = p.asOf /\ q.gen = current'
    BY DEF RequestFields
  <2> HIDE DEF q
  <2>5. CASE current = 0
    <3>1. /\ HistoriesOK' /\ Len(objs') = Len(objs) + 1 /\ objs'[current'] = mirror!EmptyHistory
          /\ current' = Len(objs) + 1 /\ Len(objs) \in Nat
      BY <1>4, <2>5, HistoryBegun DEF MirrorInv, HistoriesOK
    <3>2. objs'[current'].snap.asOf = 0
      BY <3>1 DEF mirror!EmptyHistory, mirror!NoSnap
    <3>3. q.gen \in 1..Len(objs') /\ current' \in {0, q.gen} /\ objs'[q.gen].snap.asOf < q.asOf
      BY <2>2, <2>4, <3>1, <3>2, MarketIs
    <3>4. MirrorInv'
      BY <1>1, <1>4, <2>1, <2>3, <2>4, <3>1, <3>3, BuildMoves
    <3>5. Begun
      <4>1. current' # 0
        BY <3>1
      <4>2. ~blunder'
        BY <1>4, <2>5, Zenon
      <4> QED
        BY <2>5, <3>1, <4>1, <4>2 DEF Begun
    <3> QED
      BY <3>4, <3>5 DEF HistoryStep
  <2>6. CASE current # 0
    <3>1. objs' = objs /\ current' = current /\ current \in 1..Len(objs)
      BY <1>4, <2>6 DEF MirrorInv, HistoriesOK
    <3>2. HistoriesOK'
      BY <3>1, HistoriesRest DEF MirrorInv
    <3>3. objs[current].snap.asOf \in Nat
      BY <3>1 DEF MirrorInv, HistoriesOK, GoodHistory
    <3>4. objs[current].snap.asOf < p.asOf
      BY <1>4, <2>1, <2>2, <2>6, <3>3 DEF mirror!Covered, mirror!Current
    <3>5. q.gen \in 1..Len(objs') /\ current' \in {0, q.gen} /\ objs'[q.gen].snap.asOf < q.asOf
      BY <2>4, <3>1, <3>4
    <3>6. MirrorInv'
      BY <1>1, <1>4, <2>1, <2>3, <2>4, <3>2, <3>5, BuildMoves
    <3>7. Continued
      <4>1. blunder' <=> blunder
        BY <1>4, <2>6
      <4>2. ScansOf(objs'[current]) = ScansOf(objs[current])
            /\ objs[current].snap.asOf <= objs'[current].snap.asOf
        BY <3>1, <3>3
      <4> QED
        BY <2>6, <3>1, <4>1, <4>2 DEF Continued
    <3> QED
      BY <3>6, <3>7 DEF HistoryStep
  <2> QED
    BY <2>5, <2>6
<1> QED
  BY <1>2, <1>3, <1>4 DEF mirror!BuildStart

\* the build under way: its request, its history and the block it is for
LEMMA BuildIs ==
  ASSUME MirrorInv, NEW r \in Requests, req[r].stage # "none"
  PROVE  /\ queue # <<>> /\ Head(queue) = r /\ Leads(req[r], r) /\ RequestFields(req[r])
         /\ req[r].gen \in 1..Len(objs) /\ current \in {0, req[r].gen} /\ GoodHistory(mirror!Mine(r))
         /\ req[r].asOf \in From..Tip /\ mirror!Mine(r).snap.asOf < req[r].asOf
         /\ mirror!Mine(r) = objs[req[r].gen]
<1>1. UnderWay(req[r], r) /\ RequestFields(req[r])
  BY DEF MirrorInv
<1>2. Leads(req[r], r) /\ req[r].asOf \in From..Tip
  BY <1>1, HeadLeads DEF UnderWay
<1> QED
  BY <1>1, <1>2 DEF UnderWay, MirrorInv, HistoriesOK, mirror!Mine

\* the build under way commits what it read to its history, or moves to its next stage
LEMMA BuildCommits ==
  ASSUME MirrorInv, NEW r \in Requests, req[r].stage # "none",
         NEW h, GoodHistory(h), h.snap = mirror!Mine(r).snap,
         objs' = [objs EXCEPT ![req[r].gen] = h],
         NEW stage, NEW chunks, NEW reconciled,
         req' = [req EXCEPT ![r].stage = stage, ![r].chunks = chunks, ![r].reconciled = reconciled],
         UNCHANGED <<head, queue, current>>,
         \/ ScansOf(h) = ScansOf(mirror!Mine(r)) /\ UNCHANGED blunder
         \/ EpochsRead(mirror!Mine(r), h)
         \/ EventsRead(mirror!Mine(r), h)
  PROVE  MirrorInv' /\ HistoryStep
<1>1. PICK p : p = req[r]
  OBVIOUS
<1>2. PICK g \in 1..Len(objs) : g = p.gen
  BY <1>1, BuildIs
<1>3. /\ queue # <<>> /\ Head(queue) = r /\ RequestFields(p) /\ current \in {0, g}
      /\ p.asOf \in From..Tip /\ objs[g].snap.asOf < p.asOf /\ mirror!Mine(r) = objs[g]
  BY <1>1, <1>2, BuildIs
<1> DEFINE q == [pc |-> p.pc, who |-> p.who, asOf |-> p.asOf, left |-> p.left, leader |-> p.leader,
                 stage |-> stage, gen |-> p.gen, chunks |-> chunks,
                 reconciled |-> reconciled, snap |-> p.snap]
<1>4. req' = [req EXCEPT ![r] = q]
  <2>1. [p EXCEPT !.stage = stage, !.chunks = chunks, !.reconciled = reconciled] = q
    <3>1. PICK new : new = [p EXCEPT !.stage = stage, !.chunks = chunks, !.reconciled = reconciled]
      OBVIOUS
    <3>2. new = q
      BY <3>1, <1>3 DEF RequestFields
    <3> QED
      BY <3>1, <3>2
  <2>2. req' = [req EXCEPT ![r] = [p EXCEPT !.stage = stage, !.chunks = chunks, !.reconciled = reconciled]]
    BY <1>1 DEF MirrorInv
  <2> QED
    BY <2>1, <2>2
<1>5. RequestFields(q) /\ q.pc = p.pc /\ q.leader = p.leader /\ q.asOf = p.asOf /\ q.gen = g
  BY <1>2 DEF RequestFields
<1> HIDE DEF q
<1>6. HistoriesOK' /\ Len(objs') = Len(objs) /\ objs'[g] = h
  <2>1. HistoriesOK /\ GoodHistory(h) /\ objs' = [objs EXCEPT ![g] = h]
    BY <1>1, <1>2 DEF MirrorInv
  <2> QED
    BY <2>1, HistoryPut
<1>7. q.gen \in 1..Len(objs') /\ current' \in {0, q.gen} /\ objs'[q.gen].snap.asOf < q.asOf
  BY <1>3, <1>5, <1>6
<1>8. MirrorInv'
  BY <1>1, <1>3, <1>4, <1>5, <1>6, <1>7, BuildMoves
<1>9. CASE current = 0
  BY <1>8, <1>9 DEF HistoryStep, Dropped
<1>10. CASE current # 0
  <2>1. current = g /\ objs[g].snap.asOf \in Nat /\ objs'[g].snap.asOf = objs[g].snap.asOf
    BY <1>3, <1>6, <1>10 DEF MirrorInv, HistoriesOK, GoodHistory
  <2>2. Continued
    <3>1. /\ current # 0 /\ current' = current
          /\ objs[current].snap.asOf <= objs'[current].snap.asOf
      BY <1>10, <2>1
    <3>2. CASE ScansOf(h) = ScansOf(mirror!Mine(r)) /\ UNCHANGED blunder
      <4>1. ScansOf(objs'[current]) = ScansOf(objs[current]) /\ (blunder' <=> blunder)
        BY <1>3, <1>6, <2>1, <3>2
      <4> QED
        BY <3>1, <4>1 DEF Continued
    <3>3. CASE EpochsRead(mirror!Mine(r), h)
      <4>1. EpochsRead(objs[current], objs'[current])
        BY <1>3, <1>6, <2>1, <3>3
      <4> QED
        BY <3>1, <4>1 DEF Continued
    <3>4. CASE EventsRead(mirror!Mine(r), h)
      <4>1. EventsRead(objs[current], objs'[current])
        BY <1>3, <1>6, <2>1, <3>4
      <4> QED
        BY <3>1, <4>1 DEF Continued
    <3> QED
      BY <3>2, <3>3, <3>4
  <2> QED
    BY <1>8, <2>2 DEF HistoryStep
<1> QED
  BY <1>9, <1>10

\* a build goes on within its chunk or its proof: the two are one shape
Walked(r, n, b) == [req EXCEPT ![r].chunks = n, ![r].reconciled = b]
Placed(r, s, n, b) == [req EXCEPT ![r].stage = s, ![r].chunks = n, ![r].reconciled = b]

\* one field of the request of a build set, the others as they were
LEMMA FieldsKept ==
  ASSUME MirrorInv, NEW r \in Requests, NEW n, NEW b
  PROVE  /\ [req EXCEPT ![r].chunks = n] =
              [req EXCEPT ![r].stage = req[r].stage, ![r].chunks = n, ![r].reconciled = req[r].reconciled]
         /\ Walked(r, n, b) = Placed(r, req[r].stage, n, b)
<1>1. PICK p : p = req[r]
  OBVIOUS
<1>2. RequestFields(p)
  BY <1>1 DEF MirrorInv
<1> DEFINE q(m, c) == [pc |-> p.pc, who |-> p.who, asOf |-> p.asOf, left |-> p.left, leader |-> p.leader,
                       stage |-> p.stage, gen |-> p.gen, chunks |-> m, reconciled |-> c, snap |-> p.snap]
<1>3. [req EXCEPT ![r].chunks = n] = [req EXCEPT ![r] = q(n, p.reconciled)]
  <2>1. [p EXCEPT !.chunks = n] = q(n, p.reconciled)
    <3>1. PICK new : new = [p EXCEPT !.chunks = n]
      OBVIOUS
    <3>2. new = q(n, p.reconciled)
      BY <3>1, <1>2 DEF RequestFields
    <3> QED
      BY <3>1, <3>2
  <2>2. [req EXCEPT ![r].chunks = n] = [req EXCEPT ![r] = [p EXCEPT !.chunks = n]]
    BY <1>1 DEF MirrorInv
  <2> QED
    BY <2>1, <2>2
<1>4. ASSUME NEW c
      PROVE  [req EXCEPT ![r].stage = p.stage, ![r].chunks = n, ![r].reconciled = c]
               = [req EXCEPT ![r] = q(n, c)]
  <2>1. [p EXCEPT !.stage = p.stage, !.chunks = n, !.reconciled = c] = q(n, c)
    <3>1. PICK new : new = [p EXCEPT !.stage = p.stage, !.chunks = n, !.reconciled = c]
      OBVIOUS
    <3>2. new = q(n, c)
      BY <3>1, <1>2 DEF RequestFields
    <3> QED
      BY <3>1, <3>2
  <2>2. [req EXCEPT ![r].stage = p.stage, ![r].chunks = n, ![r].reconciled = c]
          = [req EXCEPT ![r] = [p EXCEPT !.stage = p.stage, !.chunks = n, !.reconciled = c]]
    BY <1>1 DEF MirrorInv
  <2> QED
    BY <2>1, <2>2
<1>5. [req EXCEPT ![r].chunks = n, ![r].reconciled = b] = [req EXCEPT ![r] = q(n, b)]
  <2>1. [p EXCEPT !.chunks = n, !.reconciled = b] = q(n, b)
    <3>1. PICK new : new = [p EXCEPT !.chunks = n, !.reconciled = b]
      OBVIOUS
    <3>2. new = q(n, b)
      BY <3>1, <1>2 DEF RequestFields
    <3> QED
      BY <3>1, <3>2
  <2>2. [req EXCEPT ![r].chunks = n, ![r].reconciled = b]
          = [req EXCEPT ![r] = [p EXCEPT !.chunks = n, !.reconciled = b]]
    BY <1>1 DEF MirrorInv
  <2> QED
    BY <2>1, <2>2
<1> HIDE DEF q
<1> QED
  BY <1>1, <1>3, <1>4, <1>5 DEF Walked, Placed

LEMMA EpochsKept ==
  ASSUME MirrorInv, NEW r \in Requests, mirror!EpochChunk(r)
  PROVE  MirrorInv' /\ HistoryStep
<1>1. req[r].stage # "none" /\ mirror!EpochFrom(mirror!Mine(r)) <= req[r].asOf
  BY DEF mirror!EpochChunk, mirror!Running
<1>2. PICK h : h = mirror!Mine(r)
  OBVIOUS
<1>3. /\ queue # <<>> /\ Head(queue) = r /\ req[r].asOf \in From..Tip /\ GoodHistory(h)
      /\ req[r].gen \in 1..Len(objs) /\ h = objs[req[r].gen]
  BY <1>1, <1>2, BuildIs
<1> DEFINE from == mirror!EpochFrom(h)
           to   == mirror!Later(from, Chunk, req[r].asOf)
<1>4. from \in Deployment..Tip /\ to \in from..Tip
  <2>1. from \in Nat /\ Deployment <= from
    BY <1>3, MarketIs DEF mirror!EpochFrom, GoodHistory, ScannedFrom
  <2>2. from <= req[r].asOf
    BY <1>1, <1>2
  <2> HIDE DEF from
  <2> QED
    BY <1>3, <2>1, <2>2, MarketIs DEF mirror!Later
<1>5. CASE mirror!NotReady(r)
  BY <1>3, <1>5, StopKept
<1>6. CASE ~mirror!NotReady(r)
  <2>1. PICK got \in SUBSET EpochsIn(from, to) :
          IF ~mirror!Contiguous(h, got)
          THEN /\ mirror!Settle(r, mirror!NoSnap) /\ mirror!Drop(req[r].gen)
               /\ UNCHANGED <<head, objs>>
          ELSE /\ objs' = [objs EXCEPT ![req[r].gen].epochs = @ \union got,
                                       ![req[r].gen].epochsScannedTo = to]
               /\ req' = [req EXCEPT ![r].chunks = @ + 1]
               /\ blunder' = (blunder \/ got # EpochsIn(from, to))
               /\ UNCHANGED <<head, queue, current>>
    BY <1>2, <1>6 DEF mirror!EpochChunk, EpochsIn
  <2>2. CASE ~mirror!Contiguous(h, got)
    BY <1>1, <2>1, <2>2, RefusalKept
  <2>3. CASE mirror!Contiguous(h, got)
    <3> DEFINE k == [changes |-> h.changes, scannedTo |-> h.scannedTo, epochs |-> h.epochs \union got,
                     epochsScannedTo |-> to, epochsVerifiedTo |-> h.epochsVerifiedTo,
                     owners |-> h.owners, snap |-> h.snap]
    <3>1. objs' = [objs EXCEPT ![req[r].gen] = k]
      <4>1. [h EXCEPT !.epochs = @ \union got, !.epochsScannedTo = to] = k
        <5>1. PICK new : new = [h EXCEPT !.epochs = @ \union got, !.epochsScannedTo = to]
          OBVIOUS
        <5>2. new = k
          BY <5>1, <1>3 DEF GoodHistory, HistoryFields
        <5> QED
          BY <5>1, <5>2
      <4> HIDE DEF k, to
      <4>2. objs' = [objs EXCEPT ![req[r].gen] = [h EXCEPT !.epochs = @ \union got, !.epochsScannedTo = to]]
        BY <1>3, <2>1, <2>3, HistoriesAre DEF MirrorInv
      <4> QED
        BY <4>1, <4>2
    <3>2. GoodHistory(k) /\ k.snap = mirror!Mine(r).snap
      BY <1>2, <1>3, <1>4, MarketIs DEF GoodHistory, HistoryFields, ScannedFrom
    <3>3. EpochsRead(mirror!Mine(r), k)
      <4>1. ScansOf(k) = <<h.epochs \union got, to, h.changes, h.scannedTo>>
        BY DEF ScansOf
      <4>2. Whole(got, EpochsIn(from, to))
        BY <2>1, <2>3 DEF Whole
      <4> HIDE DEF k, to
      <4>3. to \in from..Tip /\ got \in SUBSET EpochsIn(from, to)
        BY <1>4, <2>1
      <4> QED
        BY <1>2, <4>1, <4>2, <4>3 DEF EpochsRead
    <3>4. req' = [req EXCEPT ![r].stage = req[r].stage, ![r].chunks = req[r].chunks + 1,
                             ![r].reconciled = req[r].reconciled]
      <4>1. req' = [req EXCEPT ![r].chunks = req[r].chunks + 1]
        BY <2>1, <2>3
      <4> QED
        BY <4>1, FieldsKept
    <3>5. UNCHANGED <<head, queue, current>>
      BY <2>1, <2>3
    <3> HIDE DEF k
    <3> QED
      BY <1>1, <3>1, <3>2, <3>3, <3>4, <3>5, BuildCommits
  <2> QED
    BY <2>2, <2>3
<1> QED
  BY <1>5, <1>6

LEMMA CountKept ==
  ASSUME MirrorInv, NEW r \in Requests, mirror!EpochCount(r)
  PROVE  MirrorInv' /\ HistoryStep
<1>1. req[r].stage # "none"
  BY DEF mirror!EpochCount, mirror!Running
<1>2. PICK h : h = mirror!Mine(r)
  OBVIOUS
<1>3. GoodHistory(h) /\ req[r].gen \in 1..Len(objs) /\ h = objs[req[r].gen]
  BY <1>1, <1>2, BuildIs
<1>4. CASE mirror!Refuse(r, TRUE)
  BY <1>1, <1>4, RefusalKept DEF mirror!Refuse
<1>5. CASE ~mirror!Refuse(r, TRUE)
  <2>1. PICK verified :
          /\ objs' = [objs EXCEPT ![req[r].gen].epochsVerifiedTo = verified]
          /\ req' = [req EXCEPT ![r].stage = "collateral", ![r].chunks = 0, ![r].reconciled = 0]
          /\ UNCHANGED <<head, queue, current, blunder>>
    BY <1>5 DEF mirror!EpochCount
  <2> DEFINE k == [changes |-> h.changes, scannedTo |-> h.scannedTo, epochs |-> h.epochs,
                   epochsScannedTo |-> h.epochsScannedTo, epochsVerifiedTo |-> verified,
                   owners |-> h.owners, snap |-> h.snap]
  <2>2. objs' = [objs EXCEPT ![req[r].gen] = k]
    <3>1. [h EXCEPT !.epochsVerifiedTo = verified] = k
      <4>1. PICK new : new = [h EXCEPT !.epochsVerifiedTo = verified]
        OBVIOUS
      <4>2. new = k
        BY <4>1, <1>3 DEF GoodHistory, HistoryFields
      <4> QED
        BY <4>1, <4>2
    <3>2. objs' = [objs EXCEPT ![req[r].gen] = [h EXCEPT !.epochsVerifiedTo = verified]]
      BY <1>3, <2>1, HistoriesAre DEF MirrorInv
    <3> QED
      BY <3>1, <3>2
  <2>3. GoodHistory(k) /\ k.snap = mirror!Mine(r).snap
    BY <1>2, <1>3 DEF GoodHistory, HistoryFields, ScannedFrom
  <2>4. ScansOf(k) = ScansOf(mirror!Mine(r))
    BY <1>2 DEF ScansOf
  <2> HIDE DEF k
  <2> QED
    BY <1>1, <2>1, <2>2, <2>3, <2>4, BuildCommits
<1> QED
  BY <1>4, <1>5

\* a chunk of events ends on the grid of the market, at or after its own first block
LEMMA ChunkEnds ==
  ASSUME NEW from \in Nat, From <= from
  PROVE  From + ((from - From) \div Chunk + 1) * Chunk - 1 \in Nat
         /\ from <= From + ((from - From) \div Chunk + 1) * Chunk - 1
<1>1. PICK x \in Nat : x = from - From
  BY MarketIs
<1>2. (x \div Chunk) \in Nat /\ x + 1 <= (x \div Chunk + 1) * Chunk
  BY MarketIs
<1>3. PICK e \in Int : e = (x \div Chunk + 1) * Chunk
  BY <1>2, MarketIs
<1>4. from <= From + e - 1 /\ From + e - 1 \in Nat
  BY <1>1, <1>2, <1>3, MarketIs
<1> QED
  BY <1>1, <1>3, <1>4

LEMMA EventsKept ==
  ASSUME MirrorInv, NEW r \in Requests, mirror!CollateralChunk(r)
  PROVE  MirrorInv' /\ HistoryStep
<1>1. req[r].stage # "none" /\ mirror!CollateralFrom(mirror!Mine(r)) <= req[r].asOf
  BY DEF mirror!CollateralChunk, mirror!Running
<1>2. PICK h : h = mirror!Mine(r)
  OBVIOUS
<1>3. /\ queue # <<>> /\ Head(queue) = r /\ req[r].asOf \in From..Tip /\ GoodHistory(h)
      /\ req[r].gen \in 1..Len(objs) /\ h = objs[req[r].gen]
  BY <1>1, <1>2, BuildIs
<1> DEFINE from == mirror!CollateralFrom(h)
           end  == From + ((from - From) \div Chunk + 1) * Chunk - 1
           to   == IF end < req[r].asOf THEN end ELSE req[r].asOf
<1>4. from \in Nat /\ From <= from /\ from <= req[r].asOf
  BY <1>1, <1>2, <1>3, MarketIs DEF mirror!CollateralFrom, GoodHistory, ScannedFrom
<1>5. to \in from..Tip /\ from \in From..Tip
  <2> HIDE DEF from
  <2>1. end \in Nat /\ from <= end
    BY <1>4, ChunkEnds
  <2> HIDE DEF end
  <2> QED
    BY <1>3, <1>4, <2>1, MarketIs
<1>6. CASE mirror!NotReady(r)
  BY <1>3, <1>6, StopKept
<1>7. CASE ~mirror!NotReady(r)
  <2> DEFINE Reads(got, owners) ==
          \/ /\ mirror!Settle(r, mirror!NoSnap) /\ mirror!Drop(req[r].gen)
             /\ UNCHANGED <<head, objs>>
          \/ /\ objs' = [objs EXCEPT ![req[r].gen].changes = h.changes \union got,
                                     ![req[r].gen].owners = owners,
                                     ![req[r].gen].scannedTo = to]
             /\ req' = [req EXCEPT ![r].chunks = @ + 1, ![r].reconciled = to]
             /\ blunder' = (blunder \/ got # ChangesIn(from, to))
             /\ UNCHANGED <<head, queue, current>>
  <2>0. PICK got \in SUBSET ChangesIn(from, to) : \E owners : Reads(got, owners)
    <3> DEFINE truth == {c \in Changes : c.block \in from .. to}
    <3>1. h = mirror!Mine(r) /\ truth = ChangesIn(from, to)
      BY <1>2 DEF ChangesIn
    <3>2. PICK got \in SUBSET truth :
            \/ /\ mirror!Settle(r, mirror!NoSnap) /\ mirror!Drop(req[r].gen)
               /\ UNCHANGED <<head, objs>>
            \/ /\ objs' = [objs EXCEPT ![req[r].gen].changes = h.changes \union got,
                                       ![req[r].gen].owners = mirror!NewOwners(h, got),
                                       ![req[r].gen].scannedTo = to]
               /\ req' = [req EXCEPT ![r].chunks = @ + 1, ![r].reconciled = to]
               /\ blunder' = (blunder \/ got # truth)
               /\ UNCHANGED <<head, queue, current>>
      BY <1>7, <3>1 DEF mirror!CollateralChunk
    <3> HIDE DEF truth
    <3> QED
      BY <3>1, <3>2
  <2>1. PICK owners : Reads(got, owners)
    BY <2>0
  <2>2. CASE mirror!Settle(r, mirror!NoSnap) /\ mirror!Drop(req[r].gen) /\ UNCHANGED <<head, objs>>
    BY <1>1, <2>2, RefusalKept
  <2>3. CASE /\ objs' = [objs EXCEPT ![req[r].gen].changes = h.changes \union got,
                                     ![req[r].gen].owners = owners,
                                     ![req[r].gen].scannedTo = to]
             /\ req' = [req EXCEPT ![r].chunks = @ + 1, ![r].reconciled = to]
             /\ blunder' = (blunder \/ got # ChangesIn(from, to))
             /\ UNCHANGED <<head, queue, current>>
    <3> DEFINE k == [changes |-> h.changes \union got, scannedTo |-> to, epochs |-> h.epochs,
                     epochsScannedTo |-> h.epochsScannedTo, epochsVerifiedTo |-> h.epochsVerifiedTo,
                     owners |-> owners, snap |-> h.snap]
    <3>1. objs' = [objs EXCEPT ![req[r].gen] = k]
      <4> HIDE DEF to
      <4>1. [h EXCEPT !.changes = h.changes \union got, !.owners = owners, !.scannedTo = to] = k
        <5>1. PICK new : new = [h EXCEPT !.changes = h.changes \union got, !.owners = owners, !.scannedTo = to]
          OBVIOUS
        <5>2. new = k
          BY <5>1, <1>3 DEF GoodHistory, HistoryFields
        <5> QED
          BY <5>1, <5>2
      <4> HIDE DEF k
      <4>2. objs' = [objs EXCEPT ![req[r].gen] =
                        [h EXCEPT !.changes = h.changes \union got, !.owners = owners, !.scannedTo = to]]
        BY <1>3, <2>1, <2>3, HistoriesAre DEF MirrorInv
      <4> QED
        BY <4>1, <4>2
    <3>2. GoodHistory(k) /\ k.snap = mirror!Mine(r).snap
      <4> HIDE DEF to, from
      <4> QED
        BY <1>2, <1>3, <1>5, MarketIs DEF GoodHistory, HistoryFields, ScannedFrom
    <3>3. EventsRead(mirror!Mine(r), k)
      <4>1. ScansOf(k) = <<h.epochs, h.epochsScannedTo, h.changes \union got, to>>
        BY DEF ScansOf
      <4>2. Whole(got, ChangesIn(from, to))
        BY <2>1, <2>3 DEF Whole
      <4> HIDE DEF k, to
      <4>3. to \in from..Tip /\ got \in SUBSET ChangesIn(from, to)
        BY <1>5, <2>1
      <4> QED
        BY <1>2, <4>1, <4>2, <4>3 DEF EventsRead
    <3>4. req' = [req EXCEPT ![r].stage = req[r].stage, ![r].chunks = req[r].chunks + 1,
                             ![r].reconciled = to]
      <4> HIDE DEF to
      <4>1. req' = [req EXCEPT ![r].chunks = req[r].chunks + 1, ![r].reconciled = to]
        BY <2>1, <2>3
      <4>2. PICK n : n = req[r].chunks + 1
        OBVIOUS
      <4>3. req' = Walked(r, n, to)
        BY <4>1, <4>2 DEF Walked
      <4>4. req' = Placed(r, req[r].stage, n, to)
        BY <4>3, FieldsKept
      <4> QED
        BY <4>2, <4>4 DEF Placed
    <3>5. UNCHANGED <<head, queue, current>>
      BY <2>1, <2>3
    <3> HIDE DEF k, to
    <3> QED
      BY <1>1, <3>1, <3>2, <3>3, <3>4, <3>5, BuildCommits
  <2> QED
    BY <2>1, <2>2, <2>3
<1> QED
  BY <1>6, <1>7

\* the snapshot that a build hands on is of its own block, so it is newer than the last one
LEMMA ReplayKept ==
  ASSUME MirrorInv, NEW r \in Requests, mirror!Replay(r)
  PROVE  MirrorInv' /\ HistoryStep
<1>1. req[r].stage # "none"
  BY DEF mirror!Replay, mirror!Running
<1>2. PICK g \in 1..Len(objs) : g = req[r].gen
  BY <1>1, BuildIs
<1>3. PICK h : h = objs[g]
  OBVIOUS
<1>4. /\ queue # <<>> /\ Head(queue) = r /\ req[r].asOf \in From..Tip /\ GoodHistory(h)
      /\ current \in {0, g} /\ h.snap.asOf < req[r].asOf
  BY <1>1, <1>2, <1>3, BuildIs
<1>5. CASE mirror!Refuse(r, FALSE)
  BY <1>1, <1>5, RefusalKept DEF mirror!Refuse
<1>6. CASE ~mirror!Refuse(r, FALSE)
  <2>1. PICK snap : /\ snap.asOf = req[r].asOf
                    /\ objs' = [objs EXCEPT ![g].snap = snap] /\ mirror!Settle(r, snap)
                    /\ UNCHANGED <<head, current, blunder>>
    <3>1. PICK owners, points, collateral :
            LET snap == [asOf |-> req[r].asOf, gen |-> req[r].gen, owners |-> owners,
                         points |-> points, collateral |-> collateral]
            IN  /\ objs' = [objs EXCEPT ![req[r].gen].snap = snap] /\ mirror!Settle(r, snap)
                /\ UNCHANGED <<head, current, blunder>>
      BY <1>6 DEF mirror!Replay
    <3> WITNESS [asOf |-> req[r].asOf, gen |-> req[r].gen, owners |-> owners,
                 points |-> points, collateral |-> collateral]
    <3> QED
      BY <1>2, <3>1
  <2> DEFINE k == [changes |-> h.changes, scannedTo |-> h.scannedTo, epochs |-> h.epochs,
                   epochsScannedTo |-> h.epochsScannedTo, epochsVerifiedTo |-> h.epochsVerifiedTo,
                   owners |-> h.owners, snap |-> snap]
  <2>2. objs' = [objs EXCEPT ![g] = k]
    <3>1. [h EXCEPT !.snap = snap] = k
      <4>1. PICK new : new = [h EXCEPT !.snap = snap]
        OBVIOUS
      <4>2. new = k
        BY <4>1, <1>4 DEF GoodHistory, HistoryFields
      <4> QED
        BY <4>1, <4>2
    <3>2. objs' = [objs EXCEPT ![g] = [h EXCEPT !.snap = snap]]
      BY <1>3, <2>1, HistoriesAre DEF MirrorInv
    <3> QED
      BY <3>1, <3>2
  <2>3. GoodHistory(k) /\ ScansOf(k) = ScansOf(h) /\ k.snap.asOf = req[r].asOf
    BY <1>4, <2>1, MarketIs DEF GoodHistory, HistoryFields, ScannedFrom, ScansOf
  <2> HIDE DEF k
  <2>4. HistoriesOK' /\ Len(objs') = Len(objs) /\ objs'[g] = k
    <3>1. HistoriesOK
      BY DEF MirrorInv
    <3> QED
      <4>1. PICK new : new = k
        OBVIOUS
      <4>2. GoodHistory(new) /\ objs' = [objs EXCEPT ![g] = new] /\ g \in 1..Len(objs)
        BY <1>2, <2>2, <2>3, <4>1
      <4>3. /\ HistoriesOK' /\ Len(objs') = Len(objs)
            /\ \A j \in 1..Len(objs) : objs'[j] = IF j = g THEN new ELSE objs[j]
        BY <3>1, <4>2, HistoryPut
      <4> QED
        BY <4>1, <4>2, <4>3
  <2>5. MirrorInv'
    BY <1>4, <2>1, <2>4, BuildSettles
  <2>6. HistoryStep
    <3>1. CASE current = 0
      BY <2>1, <3>1 DEF HistoryStep, Dropped
    <3>2. CASE current # 0
      <4>1. current = g /\ current' = current /\ (blunder' <=> blunder)
        BY <1>4, <2>1, <3>2
      <4>2. ScansOf(objs'[current]) = ScansOf(objs[current])
        BY <1>3, <2>3, <2>4, <4>1
      <4>3. objs[current].snap.asOf <= objs'[current].snap.asOf
        BY <1>3, <1>4, <2>3, <2>4, <4>1 DEF GoodHistory
      <4> QED
        BY <3>2, <4>1, <4>2, <4>3 DEF HistoryStep, Continued
    <3> QED
      BY <3>1, <3>2
  <2> QED
    BY <2>5, <2>6
<1> QED
  BY <1>5, <1>6

LEMMA FailureKept ==
  ASSUME MirrorInv, NEW r \in Requests, mirror!BuildFails(r)
  PROVE  MirrorInv' /\ HistoryStep
BY StopKept DEF mirror!BuildFails

\* a block is finalized, or a second passes
LEMMA TimeKept ==
  ASSUME MirrorInv, mirror!Finalize \/ mirror!Tick
  PROVE  MirrorInv' /\ HistoryStep
<1>1. UNCHANGED <<objs, current, queue, blunder>>
  BY DEF mirror!Finalize, mirror!Tick
<1>2. HistoryStep
  BY <1>1, HistoryRests
<1>3. head' \in Int /\ head' <= Tip
  BY MarketIs DEF MirrorInv, mirror!Finalize, mirror!Tick
<1>4. HistoriesOK' /\ current' \in 0..Len(objs')
  BY <1>1, HistoriesRest DEF MirrorInv
<1>5. /\ req' = [r \in Requests |-> req'[r]]
      /\ \A r \in Requests : /\ RequestFields(req'[r]) /\ req'[r].pc = req[r].pc
                             /\ req'[r].leader = req[r].leader /\ req'[r].asOf = req[r].asOf
                             /\ req'[r].stage = req[r].stage /\ req'[r].gen = req[r].gen
  <2>1. CASE mirror!Finalize
    BY <2>1 DEF MirrorInv, mirror!Finalize
  <2>2. CASE mirror!Tick
    <3>1. req' = [r \in Requests |-> IF req[r].pc = "idle" \/ req[r].left < 0 THEN req[r]
                                     ELSE [req[r] EXCEPT !.left = @ - 1]]
      BY <2>2 DEF mirror!Tick
    <3>2. ASSUME NEW r \in Requests
          PROVE  /\ RequestFields(req'[r]) /\ req'[r].pc = req[r].pc
                 /\ req'[r].leader = req[r].leader /\ req'[r].asOf = req[r].asOf
                 /\ req'[r].stage = req[r].stage /\ req'[r].gen = req[r].gen
      <4>1. PICK p : p = req[r]
        OBVIOUS
      <4>2. RequestFields(p)
        BY <4>1 DEF MirrorInv
      <4>3. CASE req'[r] = p
        BY <4>1, <4>2, <4>3
      <4>4. CASE req'[r] = [p EXCEPT !.left = @ - 1]
        <5>1. req'[r] = [pc |-> p.pc, who |-> p.who, asOf |-> p.asOf, left |-> p.left - 1,
                         leader |-> p.leader, stage |-> p.stage, gen |-> p.gen, chunks |-> p.chunks,
                         reconciled |-> p.reconciled, snap |-> p.snap]
          BY <4>2, <4>4 DEF RequestFields
        <5> QED
          BY <4>1, <5>1 DEF RequestFields
      <4> QED
        BY <3>1, <4>1, <4>3, <4>4
    <3> QED
      BY <3>1, <3>2
  <2> QED
    BY <2>1, <2>2
<1>6. BuildsQueued'
  <2>1. \A i \in 1..Len(queue) : queue[i] \in Requests
    BY ElementOfSeq DEF MirrorInv, BuildsQueued
  <2> QED
    BY <1>1, <1>5, <2>1 DEF MirrorInv, BuildsQueued, Leads
<1>7. ASSUME NEW r \in Requests, req'[r].stage # "none"
      PROVE  UnderWay(req[r], r)'
  <2>1. UnderWay(req[r], r) /\ req'[r].gen = req[r].gen /\ req'[r].asOf = req[r].asOf
    BY <1>5, <1>7 DEF MirrorInv
  <2> QED
    BY <1>1, <2>1 DEF UnderWay
<1> QED
  BY <1>2, <1>3, <1>4, <1>5, <1>6, <1>7 DEF MirrorInv, RequestFields

LEMMA MirrorKept == ASSUME MirrorInv, mirror!Next PROVE MirrorInv' /\ HistoryStep
<1>1. CASE \E r \in Requests : mirror!Progress(r) \/ mirror!Failure(r)
  <2>1. PICK r \in Requests : mirror!Progress(r) \/ mirror!Failure(r)
    BY <1>1
  <2>2. CASE \E who \in Asker[r] : mirror!Start(r, who)
    BY <2>2, AskKept
  <2>3. CASE mirror!ReadHead(r)
    BY <2>3, HeadReadKept
  <2>4. CASE mirror!NotFinalized(r) \/ mirror!Answer(r) \/ mirror!ReadFails(r)
    BY <2>4, AnswerKept
  <2>5. CASE mirror!BuildStart(r)
    BY <2>5, BuildBegins
  <2>6. CASE mirror!EpochChunk(r)
    BY <2>6, EpochsKept
  <2>7. CASE mirror!EpochCount(r)
    BY <2>7, CountKept
  <2>8. CASE mirror!CollateralChunk(r)
    BY <2>8, EventsKept
  <2>9. CASE mirror!Replay(r)
    BY <2>9, ReplayKept
  <2>10. CASE mirror!BuildFails(r)
    BY <2>10, FailureKept
  <2> QED
    BY <2>1, <2>2, <2>3, <2>4, <2>5, <2>6, <2>7, <2>8, <2>9, <2>10
      DEF mirror!Progress, mirror!Failure
<1>2. CASE mirror!Finalize \/ mirror!Tick
  BY <1>2, TimeKept
<1> QED
  BY <1>1, <1>2 DEF mirror!Next

----------------------------------------------------------------------------
(* The mirror among the services *)

\* in the other services the mirror has not started
MirrorService == IF service = "mirror" THEN MirrorInv ELSE mirror!AtRest

\* a step of the mirror, or one that leaves it at rest
LEMMA MirrorSteps ==
  ASSUME MirrorService, [Next]_vars
  PROVE  MirrorService' /\ ((MirrorInv /\ mirror!Next /\ HistoryStep) \/ UNCHANGED mirrorVars)
<1>1. CASE MirrorStep
  <2>1. MirrorInv /\ mirror!Next /\ service = "mirror" /\ service' = "mirror"
    BY <1>1 DEF MirrorStep, MirrorService
  <2> QED
    BY <2>1, MirrorKept DEF MirrorService
<1>2. CASE UNCHANGED <<service, mirrorVars>> /\ service # "mirror"
  BY <1>2 DEF MirrorService, mirrorVars, mirror!AtRest
<1>3. CASE UNCHANGED vars
  <2>1. UNCHANGED <<service, head, queue, mirrorVars>>
    BY <1>3 DEF vars, chainVars
  <2>2. CASE service = "mirror"
    <3>1. UNCHANGED <<head, queue, objs, current, req>> /\ MirrorInv
      BY <2>1, <2>2 DEF mirrorVars, MirrorService
    <3>2. HistoriesOK'
      BY <3>1, HistoriesRest DEF MirrorInv
    <3>3. BuildsQueued'
      BY <3>1 DEF MirrorInv, BuildsQueued
    <3>4. \A r \in Requests : req'[r].stage # "none" => UnderWay(req[r], r)'
      BY <3>1 DEF MirrorInv, UnderWay
    <3>5. MirrorInv'
      BY <3>1, <3>2, <3>3, <3>4 DEF MirrorInv, RequestFields
    <3> QED
      BY <2>1, <2>2, <3>5 DEF MirrorService
  <2>3. CASE service # "mirror"
    BY <2>1, <2>3 DEF MirrorService, mirrorVars, mirror!AtRest
  <2> QED
    BY <2>2, <2>3
<1> QED
  BY <1>1, <1>2, <1>3 DEF Next, DiscoveryStep, RankingStep, ServingStep

LEMMA AlwaysMirrorInv == Spec => []MirrorService
<1>1. Init => MirrorService
  BY MirrorStarts DEF Init, MirrorService
<1>2. MirrorService /\ [Next]_vars => MirrorService'
  BY MirrorSteps
<1> QED
  BY <1>1, <1>2, PTL DEF Spec

\* Within one history the snapshots never go back: builds run one after another, each asks
\* again before it starts whether a snapshot of its block is there, and the snapshot it hands
\* on is of its own block (snapshotAt, buildSnapshot).
THEOREM SnapshotsNeverGoBack == Spec => SnapshotsAdvance
<1>1. MirrorService /\ [Next]_vars
        => [current # 0 /\ current' = current => objs[current].snap.asOf <= objs'[current].snap.asOf]_mirror!vars
  <2> SUFFICES ASSUME MirrorService, [Next]_vars, current # 0, current' = current, ~UNCHANGED mirror!vars
               PROVE  objs[current].snap.asOf <= objs'[current].snap.asOf
    OBVIOUS
  <2>1. CASE HistoryStep
    BY <2>1 DEF HistoryStep, Dropped, Begun, Continued
  <2>2. CASE UNCHANGED mirrorVars
    <3>1. service = "mirror"
      BY DEF MirrorService, mirror!AtRest
    <3>2. MirrorInv /\ UNCHANGED <<objs, current, blunder>>
      BY <2>2, <3>1 DEF MirrorService, mirrorVars
    <3>3. HistoryStep
      BY <3>2, HistoryRests
    <3> QED
      BY <3>3 DEF HistoryStep, Dropped, Begun, Continued
  <2> QED
    BY <2>1, <2>2, MirrorSteps
<1> QED
  BY <1>1, AlwaysMirrorInv, PTL DEF Spec, SnapshotsAdvance, mirror!SnapshotsAdvance

\* whoever drops the history arose from it: the build under way on it, or a check of its snapshot
LEMMA DropsItsOwn ==
  ASSUME MirrorInv, mirror!Next, current # 0, current' # current
  PROVE  \E r \in Requests :
           (req[r].gen = current /\ mirror!Waiters(r) # {}) \/ req[r].snap.gen = current
<1>1. PICK r \in Requests : mirror!Progress(r) \/ mirror!Failure(r)
  BY DEF mirror!Next, mirror!Finalize, mirror!Tick
<1>2. ASSUME req[r].stage # "none"
      PROVE  mirror!Waiters(r) # {}
  <2>1. Leads(req[r], r)
    BY <1>2, BuildIs
  <2> QED
    BY <2>1 DEF Leads, mirror!Waiters
<1>3. CASE mirror!EpochChunk(r) \/ mirror!EpochCount(r) \/ mirror!CollateralChunk(r) \/ mirror!Replay(r)
  <2>1. req[r].stage # "none"
    BY <1>3 DEF mirror!EpochChunk, mirror!EpochCount, mirror!CollateralChunk, mirror!Replay,
                mirror!Running
  <2>2. mirror!Drop(req[r].gen) \/ UNCHANGED current
    BY <1>3 DEF mirror!EpochChunk, mirror!EpochCount, mirror!CollateralChunk, mirror!Replay,
                mirror!Refuse, mirror!NotReady
  <2> QED
    BY <1>2, <2>1, <2>2 DEF mirror!Drop
<1>4. CASE mirror!Answer(r)
  BY <1>4 DEF mirror!Answer, mirror!Drop
<1>5. CASE mirror!BuildStart(r)
  BY <1>5 DEF mirror!BuildStart, mirror!NotReady
<1>6. CASE \/ \E who \in Asker[r] : mirror!Start(r, who)
           \/ mirror!ReadHead(r) \/ mirror!NotFinalized(r) \/ mirror!BuildFails(r) \/ mirror!ReadFails(r)
  BY <1>6 DEF mirror!Start, mirror!ReadHead, mirror!NotFinalized, mirror!BuildFails, mirror!ReadFails,
              mirror!NotReady
<1> QED
  BY <1>1, <1>3, <1>4, <1>5, <1>6 DEF mirror!Progress, mirror!Failure

\* A proof that fails on an old discovery, a check made on an old snapshot, or a build on a
\* history that was dropped meanwhile, never costs the discovery or the history that has
\* replaced it: only what arose from it drops it (loadPointsLeaderboard, dropHistory).
THEOREM NewerSurvivesAlways == Spec => NewerSurvives
<1>1. MirrorService /\ [Next]_vars
        => [current # 0 /\ current' # current => \E r \in Requests :
              (req[r].gen = current /\ mirror!Waiters(r) # {}) \/ req[r].snap.gen = current]_mirror!vars
  <2> SUFFICES ASSUME MirrorService, [Next]_vars, current # 0, current' # current
               PROVE  \E r \in Requests :
                        (req[r].gen = current /\ mirror!Waiters(r) # {}) \/ req[r].snap.gen = current
    OBVIOUS
  <2>1. MirrorInv /\ mirror!Next
    BY MirrorSteps DEF mirrorVars
  <2> QED
    BY <2>1, DropsItsOwn
<1>2. ServiceInv /\ [Next]_vars
        => [disc.live /\ ~(disc'.live /\ disc'.gen = disc.gen) => \E r \in Loads :
              load[r].pc = "onchain" /\ load[r].gen = disc.gen]_discovery!vars
  <2> SUFFICES ASSUME ServiceInv, [Next]_vars, disc.live, ~(disc'.live /\ disc'.gen = disc.gen)
               PROVE  \E r \in Loads : load[r].pc = "onchain" /\ load[r].gen = disc.gen
    OBVIOUS
  <2>1. DiscoveryStep
    BY DEF Next, MirrorStep, RankingStep, ServingStep, vars, discoveryVars
  <2> QED
    BY <2>1, GivesUpItsOwn DEF ServiceInv, DiscoveryStep
<1> QED
  BY <1>1, <1>2, AlwaysMirrorInv, AlwaysServiceInv, PTL
    DEF Spec, NewerSurvives, mirror!NewerSurvives, discovery!NewerSurvives

----------------------------------------------------------------------------
(* The mirror as two progressive indexes *)

EpochsTo    == IF current = 0 \/ objs[current].epochsScannedTo = 0
               THEN Deployment - 1 ELSE objs[current].epochsScannedTo
EpochsKnown == IF current = 0 THEN {} ELSE objs[current].epochs
EventsTo    == IF current = 0 \/ objs[current].scannedTo = 0 THEN From - 1 ELSE objs[current].scannedTo
EventsKnown == IF current = 0 THEN {} ELSE objs[current].changes
NoBlunder   == current = 0 \/ ~blunder

\* the facts of a range of blocks, as the indexes name them
LEMMA EpochFactsAre ==
  ASSUME NEW from \in Int, NEW to \in Int, Deployment <= from, to <= Tip
  PROVE  mirror!Epochs!FactsIn(from, to) = EpochsIn(from, to)
BY MarketIs DEF mirror!Epochs!FactsIn, EpochsIn

LEMMA EventFactsAre ==
  ASSUME NEW from \in Int, NEW to \in Int, From <= from, to <= Tip
  PROVE  mirror!Collateral!FactsIn(from, to) = ChangesIn(from, to)
BY MarketIs DEF mirror!Collateral!FactsIn, ChangesIn

\* the current history, when there is one
LEMMA CurrentIs ==
  ASSUME MirrorInv, current # 0
  PROVE  GoodHistory(objs[current])
BY DEF MirrorInv, HistoriesOK

LEMMA EpochsIndexed ==
  ASSUME MirrorInv, HistoryStep
  PROVE  [mirror!Epochs!Next]_<<EpochsTo, EpochsKnown, NoBlunder>>
<1>1. CASE Dropped
  <2>1. EpochsTo' = Deployment - 1 /\ EpochsKnown' = {} /\ NoBlunder' = TRUE
    BY <1>1 DEF Dropped, EpochsTo, EpochsKnown, NoBlunder
  <2>2. mirror!Epochs!Forget
    BY <2>1 DEF mirror!Epochs!Forget, EpochsTo, EpochsKnown, NoBlunder
  <2> QED
    BY <2>2 DEF mirror!Epochs!Next
<1>2. CASE Begun
  <2>1. objs'[current'].epochsScannedTo = 0 /\ objs'[current'].epochs = {}
    BY <1>2 DEF Begun, mirror!EmptyHistory
  <2>2. EpochsTo' = EpochsTo
    BY <1>2, <2>1 DEF Begun, EpochsTo
  <2>3. EpochsKnown' = EpochsKnown
    BY <1>2, <2>1 DEF Begun, EpochsKnown
  <2>4. NoBlunder' = NoBlunder
    BY <1>2 DEF Begun, NoBlunder
  <2> QED
    BY <2>2, <2>3, <2>4
<1>3. CASE Continued
  <2>1. PICK h : h = objs[current]
    OBVIOUS
  <2>2. PICK k : k = objs'[current]
    OBVIOUS
  <2>3. /\ current # 0 /\ current' = current /\ GoodHistory(h)
        /\ \/ ScansOf(k) = ScansOf(h) /\ (blunder' <=> blunder)
           \/ EpochsRead(h, k)
           \/ EventsRead(h, k)
    BY <1>3, <2>1, <2>2, CurrentIs DEF Continued
  <2>4. /\ EpochsTo = IF h.epochsScannedTo = 0 THEN Deployment - 1 ELSE h.epochsScannedTo
        /\ EpochsTo' = IF k.epochsScannedTo = 0 THEN Deployment - 1 ELSE k.epochsScannedTo
        /\ EpochsKnown = h.epochs /\ EpochsKnown' = k.epochs
        /\ (NoBlunder <=> ~blunder) /\ (NoBlunder' <=> ~blunder')
    BY <2>1, <2>2, <2>3 DEF EpochsTo, EpochsKnown, NoBlunder
  <2>5. NoBlunder \in BOOLEAN /\ NoBlunder' \in BOOLEAN
    BY DEF NoBlunder
  <2>6. CASE k.epochs = h.epochs /\ k.epochsScannedTo = h.epochsScannedTo /\ (~blunder' => ~blunder)
    <3>1. EpochsTo' = EpochsTo /\ EpochsKnown' = EpochsKnown
      BY <2>4, <2>6
    <3>2. CASE NoBlunder' = NoBlunder
      BY <3>1, <3>2
    <3>3. CASE NoBlunder' # NoBlunder
      <4>1. NoBlunder' = FALSE
        BY <2>4, <2>5, <2>6, <3>3
      <4>2. mirror!Epochs!Doubt
        BY <3>1, <4>1 DEF mirror!Epochs!Doubt, EpochsTo, EpochsKnown, NoBlunder
      <4> QED
        BY <4>2 DEF mirror!Epochs!Next
    <3> QED
      BY <3>2, <3>3
  <2>7. CASE EpochsRead(h, k)
    <3>a. PICK to \in mirror!EpochFrom(h) .. Tip : \E got \in SUBSET EpochsIn(mirror!EpochFrom(h), to) :
            /\ ScansOf(k) = <<h.epochs \union got, to, h.changes, h.scannedTo>>
            /\ Whole(got, EpochsIn(mirror!EpochFrom(h), to))
      BY <2>7 DEF EpochsRead
    <3>1. PICK got \in SUBSET EpochsIn(mirror!EpochFrom(h), to) :
            /\ ScansOf(k) = <<h.epochs \union got, to, h.changes, h.scannedTo>>
            /\ Whole(got, EpochsIn(mirror!EpochFrom(h), to))
      BY <3>a
    <3>2. PICK from : from = mirror!EpochFrom(h)
      OBVIOUS
    <3>3. from \in Nat /\ Deployment <= from /\ from = EpochsTo + 1 /\ Deployment > 0
      BY <2>3, <2>4, <3>2, MarketIs DEF GoodHistory, ScannedFrom, mirror!EpochFrom
    <3>4. to \in from..Tip /\ to \in Nat /\ to # 0
      BY <3>a, <3>2, <3>3, MarketIs
    <3>5. k.epochs = h.epochs \union got /\ k.epochsScannedTo = to
      BY <3>1 DEF ScansOf
    <3>6. EpochsTo' = to
      BY <2>4, <3>4, <3>5
    <3>7. mirror!Epochs!FactsIn(EpochsTo + 1, to) = EpochsIn(from, to)
      BY <3>3, <3>4, EpochFactsAre, MarketIs
    <3>8. /\ EpochsKnown \subseteq EpochsKnown'
          /\ EpochsKnown' \subseteq EpochsKnown \union mirror!Epochs!FactsIn(EpochsTo + 1, to)
      BY <2>4, <3>1, <3>2, <3>5, <3>7
    <3>9. NoBlunder' => NoBlunder /\ mirror!Epochs!FactsIn(EpochsTo + 1, to) \subseteq EpochsKnown'
      BY <2>4, <3>1, <3>2, <3>5, <3>7 DEF Whole
    <3>10. to \in EpochsTo + 1 .. Tip
      BY <3>3, <3>4
    <3>11. mirror!Epochs!Learn
      BY <2>5, <3>6, <3>8, <3>9, <3>10 DEF mirror!Epochs!Learn, EpochsTo, EpochsKnown, NoBlunder
    <3> QED
      BY <3>11 DEF mirror!Epochs!Next
  <2>8. CASE EventsRead(h, k)
    <3>1. k.epochs = h.epochs /\ k.epochsScannedTo = h.epochsScannedTo /\ (~blunder' => ~blunder)
      BY <2>8 DEF EventsRead, ScansOf, Whole
    <3> QED
      BY <2>6, <3>1
  <2>9. CASE ScansOf(k) = ScansOf(h) /\ (blunder' <=> blunder)
    <3>1. k.epochs = h.epochs /\ k.epochsScannedTo = h.epochsScannedTo /\ (~blunder' => ~blunder)
      BY <2>9 DEF ScansOf
    <3> QED
      BY <2>6, <3>1
  <2>10. (ScansOf(k) = ScansOf(h) /\ (blunder' <=> blunder)) \/ EpochsRead(h, k) \/ EventsRead(h, k)
    BY <2>3
  <2> QED
    BY <2>7, <2>8, <2>9, <2>10, Zenon
<1> QED
  BY <1>1, <1>2, <1>3 DEF HistoryStep

LEMMA EventsIndexed ==
  ASSUME MirrorInv, HistoryStep
  PROVE  [mirror!Collateral!Next]_<<EventsTo, EventsKnown, NoBlunder>>
<1>1. CASE Dropped
  <2>1. EventsTo' = From - 1 /\ EventsKnown' = {} /\ NoBlunder' = TRUE
    BY <1>1 DEF Dropped, EventsTo, EventsKnown, NoBlunder
  <2>2. mirror!Collateral!Forget
    BY <2>1 DEF mirror!Collateral!Forget, EventsTo, EventsKnown, NoBlunder
  <2> QED
    BY <2>2 DEF mirror!Collateral!Next
<1>2. CASE Begun
  <2>1. objs'[current'].scannedTo = 0 /\ objs'[current'].changes = {}
    BY <1>2 DEF Begun, mirror!EmptyHistory
  <2>2. EventsTo' = EventsTo
    BY <1>2, <2>1 DEF Begun, EventsTo
  <2>3. EventsKnown' = EventsKnown
    BY <1>2, <2>1 DEF Begun, EventsKnown
  <2>4. NoBlunder' = NoBlunder
    BY <1>2 DEF Begun, NoBlunder
  <2> QED
    BY <2>2, <2>3, <2>4
<1>3. CASE Continued
  <2>1. PICK h : h = objs[current]
    OBVIOUS
  <2>2. PICK k : k = objs'[current]
    OBVIOUS
  <2>3. /\ current # 0 /\ current' = current /\ GoodHistory(h)
        /\ \/ ScansOf(k) = ScansOf(h) /\ (blunder' <=> blunder)
           \/ EpochsRead(h, k)
           \/ EventsRead(h, k)
    BY <1>3, <2>1, <2>2, CurrentIs DEF Continued
  <2>4. /\ EventsTo = IF h.scannedTo = 0 THEN From - 1 ELSE h.scannedTo
        /\ EventsTo' = IF k.scannedTo = 0 THEN From - 1 ELSE k.scannedTo
        /\ EventsKnown = h.changes /\ EventsKnown' = k.changes
        /\ (NoBlunder <=> ~blunder) /\ (NoBlunder' <=> ~blunder')
    BY <2>1, <2>2, <2>3 DEF EventsTo, EventsKnown, NoBlunder
  <2>5. NoBlunder \in BOOLEAN /\ NoBlunder' \in BOOLEAN
    BY DEF NoBlunder
  <2>6. CASE k.changes = h.changes /\ k.scannedTo = h.scannedTo /\ (~blunder' => ~blunder)
    <3>1. EventsTo' = EventsTo /\ EventsKnown' = EventsKnown
      BY <2>4, <2>6
    <3>2. CASE NoBlunder' = NoBlunder
      BY <3>1, <3>2
    <3>3. CASE NoBlunder' # NoBlunder
      <4>1. NoBlunder' = FALSE
        BY <2>4, <2>5, <2>6, <3>3
      <4>2. mirror!Collateral!Doubt
        BY <3>1, <4>1 DEF mirror!Collateral!Doubt, EventsTo, EventsKnown, NoBlunder
      <4> QED
        BY <4>2 DEF mirror!Collateral!Next
    <3> QED
      BY <3>2, <3>3
  <2>7. CASE EventsRead(h, k)
    <3>a. PICK to \in mirror!CollateralFrom(h) .. Tip : \E got \in SUBSET ChangesIn(mirror!CollateralFrom(h), to) :
            /\ ScansOf(k) = <<h.epochs, h.epochsScannedTo, h.changes \union got, to>>
            /\ Whole(got, ChangesIn(mirror!CollateralFrom(h), to))
      BY <2>7 DEF EventsRead
    <3>1. PICK got \in SUBSET ChangesIn(mirror!CollateralFrom(h), to) :
            /\ ScansOf(k) = <<h.epochs, h.epochsScannedTo, h.changes \union got, to>>
            /\ Whole(got, ChangesIn(mirror!CollateralFrom(h), to))
      BY <3>a
    <3>2. PICK from : from = mirror!CollateralFrom(h)
      OBVIOUS
    <3>3. from \in Nat /\ From <= from /\ from = EventsTo + 1 /\ From > 0
      BY <2>3, <2>4, <3>2, MarketIs DEF GoodHistory, ScannedFrom, mirror!CollateralFrom
    <3>4. to \in from..Tip /\ to \in Nat /\ to # 0
      BY <3>a, <3>2, <3>3, MarketIs
    <3>5. k.changes = h.changes \union got /\ k.scannedTo = to
      BY <3>1 DEF ScansOf
    <3>6. EventsTo' = to
      BY <2>4, <3>4, <3>5
    <3>7. mirror!Collateral!FactsIn(EventsTo + 1, to) = ChangesIn(from, to)
      BY <3>3, <3>4, EventFactsAre, MarketIs
    <3>8. /\ EventsKnown \subseteq EventsKnown'
          /\ EventsKnown' \subseteq EventsKnown \union mirror!Collateral!FactsIn(EventsTo + 1, to)
      BY <2>4, <3>1, <3>2, <3>5, <3>7
    <3>9. NoBlunder' => NoBlunder /\ mirror!Collateral!FactsIn(EventsTo + 1, to) \subseteq EventsKnown'
      BY <2>4, <3>1, <3>2, <3>5, <3>7 DEF Whole
    <3>10. to \in EventsTo + 1 .. Tip
      BY <3>3, <3>4
    <3>11. mirror!Collateral!Learn
      BY <2>5, <3>6, <3>8, <3>9, <3>10 DEF mirror!Collateral!Learn, EventsTo, EventsKnown, NoBlunder
    <3> QED
      BY <3>11 DEF mirror!Collateral!Next
  <2>8. CASE EpochsRead(h, k)
    <3>1. k.changes = h.changes /\ k.scannedTo = h.scannedTo /\ (~blunder' => ~blunder)
      BY <2>8 DEF EpochsRead, ScansOf, Whole
    <3> QED
      BY <2>6, <3>1
  <2>9. CASE ScansOf(k) = ScansOf(h) /\ (blunder' <=> blunder)
    <3>1. k.changes = h.changes /\ k.scannedTo = h.scannedTo /\ (~blunder' => ~blunder)
      BY <2>9 DEF ScansOf
    <3> QED
      BY <2>6, <3>1
  <2>10. (ScansOf(k) = ScansOf(h) /\ (blunder' <=> blunder)) \/ EpochsRead(h, k) \/ EventsRead(h, k)
    BY <2>3
  <2> QED
    BY <2>7, <2>8, <2>9, <2>10, Zenon
<1> QED
  BY <1>1, <1>2, <1>3 DEF HistoryStep

\* The mirror is two progressive indexes: of the rate epochs and of the collateral events.
LEMMA MirrorIsIndex == Spec => mirror!ImplementsIndex
<1>1. Init => mirror!Epochs!Init /\ mirror!Collateral!Init
  BY DEF Init, mirror!Init, mirror!AtRest, mirror!Epochs!Init, mirror!Collateral!Init
<1>2. MirrorService /\ [Next]_vars
        => /\ [mirror!Epochs!Next]_<<EpochsTo, EpochsKnown, NoBlunder>>
           /\ [mirror!Collateral!Next]_<<EventsTo, EventsKnown, NoBlunder>>
  <2> SUFFICES ASSUME MirrorService, [Next]_vars
               PROVE  /\ [mirror!Epochs!Next]_<<EpochsTo, EpochsKnown, NoBlunder>>
                      /\ [mirror!Collateral!Next]_<<EventsTo, EventsKnown, NoBlunder>>
    OBVIOUS
  <2>1. CASE MirrorInv /\ HistoryStep
    BY <2>1, EpochsIndexed, EventsIndexed
  <2>2. CASE UNCHANGED mirrorVars
    <3>1. UNCHANGED <<EpochsTo, EpochsKnown, EventsTo, EventsKnown, NoBlunder>>
      BY <2>2 DEF mirrorVars, EpochsTo, EpochsKnown, EventsTo, EventsKnown, NoBlunder
    <3> QED
      BY <3>1
  <2> QED
    BY <2>1, <2>2, MirrorSteps
<1> QED
  BY <1>1, <1>2, AlwaysMirrorInv, PTL
    DEF Spec, mirror!ImplementsIndex, mirror!Epochs!Spec, mirror!Collateral!Spec,
        EpochsTo, EpochsKnown, EventsTo, EventsKnown, NoBlunder

\* Every scan of the services implements the progressive index: what the discovery, the epochs
\* and the collateral events say they have scanned they have, and no build or load undoes the
\* progress of another (extendDiscovery, extendEpochs, extendCollateral).
THEOREM EveryScanIsProgressive == Spec => ScansAreProgressive
BY DiscoveryIsIndex, MirrorIsIndex, PTL DEF ScansAreProgressive

----------------------------------------------------------------------------
(* The board's sums *)

\* the sums of the instances are the library's
LEMMA RankingSums == \A f, S : ranking!SumFunctionOnSet(f, S) = SumFunctionOnSet(f, S)
BY DEF ranking!SumFunctionOnSet, ranking!FoldFunctionOnSet, ranking!MapThenFoldSet,
       SumFunctionOnSet, FoldFunctionOnSet, MapThenFoldSet

\* every wallet has earned a number of points from each source
CreditInv == credit \in [ranking!Parts -> [RankWallets -> Nat]]

LEMMA CreditStarts == Init => CreditInv
BY DEF Init, ranking!Init, ranking!AtRest, ranking!Untouched, CreditInv

LEMMA CreditKept == CreditInv /\ [Next]_vars => CreditInv'
<1> SUFFICES ASSUME CreditInv, [Next]_vars PROVE CreditInv'
  OBVIOUS
<1>1. CASE \E p \in ranking!Parts, w \in RankWallets : ranking!Earn(p, w)
  <2> PICK p \in ranking!Parts, w \in RankWallets : ranking!Earn(p, w)
    BY <1>1
  <2> QED
    BY DEF ranking!Earn, CreditInv
<1>2. CASE UNCHANGED credit
  BY <1>2 DEF CreditInv
<1> QED
  BY <1>1, <1>2 DEF Next, vars, DiscoveryStep, MirrorStep, RankingStep, ServingStep, rankingVars,
                    ranking!Next, ranking!SetBlocked

\* The lines share out the wallets, and one without points is on none.
LEMMA LinesAddUp ==
  ASSUME CreditInv
  PROVE  ranking!Total(RankWallets)
           = ranking!Total(ranking!On("ranked")) + ranking!Total(ranking!On("forestRoad"))
             + ranking!Total(ranking!On("venue")) + ranking!Total(ranking!On("blocked"))
             + ranking!Total(ranking!On("belowFloor"))
<1> DEFINE f == [w \in RankWallets |-> ranking!Points(w)]
           On(line) == {w \in RankWallets : ranking!Line(w) = line}
           Lines == {"none", "venue", "blocked", "forestRoad", "belowFloor", "ranked"}
<1>1. IsFiniteSet(RankWallets)
  BY ServicesOK DEF ranking!RankingOK, ranking!IsFiniteSet, IsFiniteSet
<1>2. \A w \in RankWallets : f[w] \in Int /\ ranking!Line(w) \in Lines /\ (ranking!Line(w) = "none" => f[w] = 0)
  BY DEF CreditInv, ranking!Points, ranking!Line, ranking!Parts
<1>3. \A line : ranking!Total(ranking!On(line)) = SumFunctionOnSet(f, On(line))
  BY RankingSums DEF ranking!Total, ranking!On
<1>4. ranking!Total(RankWallets) = SumFunctionOnSet(f, RankWallets)
  BY RankingSums DEF ranking!Total
<1>5. \A line : On(line) \in SUBSET RankWallets /\ IsFiniteSet(On(line)) /\ SumFunctionOnSet(f, On(line)) \in Int
  <2> TAKE line
  <2>1. On(line) \in SUBSET RankWallets
    OBVIOUS
  <2>2. IsFiniteSet(On(line))
    BY <1>1, <2>1, FS_Subset
  <2>3. \A w \in On(line) : f[w] \in Int
    BY <1>2, <2>1
  <2> HIDE DEF On, f
  <2>4. SumFunctionOnSet(f, On(line)) \in Int
    BY <2>2, <2>3, SetSumTake
  <2> QED
    BY <2>1, <2>2, <2>4
<1>6. RankWallets = On("none") \union (On("ranked") \union (On("forestRoad") \union (On("venue")
                      \union (On("blocked") \union On("belowFloor")))))
  BY <1>2
<1>7. \A a, b : a # b => On(a) \cap On(b) = {}
  OBVIOUS
<1>8. \A w \in On("none") : f[w] = 0
  BY <1>2
<1> HIDE DEF On, f
<1>9. SumFunctionOnSet(f, On("none")) = 0
  BY <1>5, <1>8, SetSumZero
<1>10. ASSUME NEW line, NEW T \in SUBSET RankWallets, On(line) \cap T = {}
       PROVE  /\ SumFunctionOnSet(f, On(line) \union T) = SumFunctionOnSet(f, On(line)) + SumFunctionOnSet(f, T)
              /\ On(line) \union T \in SUBSET RankWallets
  <2>1. IsFiniteSet(On(line)) /\ IsFiniteSet(T) /\ \A w \in On(line) \union T : f[w] \in Int
    BY <1>1, <1>2, <1>5, FS_Subset
  <2> QED
    BY <1>5, <1>10, <2>1, SetSumUnion
<1> DEFINE C == On("blocked") \union On("belowFloor")
           D == On("venue") \union C
           E == On("forestRoad") \union D
           F == On("ranked") \union E
<1>11. /\ C \in SUBSET RankWallets /\ D \in SUBSET RankWallets /\ E \in SUBSET RankWallets /\ F \in SUBSET RankWallets
       /\ On("venue") \cap C = {} /\ On("forestRoad") \cap D = {} /\ On("ranked") \cap E = {} /\ On("none") \cap F = {}
  BY <1>5, <1>7
<1>12. SumFunctionOnSet(f, C) = SumFunctionOnSet(f, On("blocked")) + SumFunctionOnSet(f, On("belowFloor"))
  BY <1>5, <1>7, <1>10
<1>13. SumFunctionOnSet(f, D) = SumFunctionOnSet(f, On("venue")) + SumFunctionOnSet(f, C)
  BY <1>10, <1>11
<1>14. SumFunctionOnSet(f, E) = SumFunctionOnSet(f, On("forestRoad")) + SumFunctionOnSet(f, D)
  BY <1>10, <1>11
<1>15. SumFunctionOnSet(f, F) = SumFunctionOnSet(f, On("ranked")) + SumFunctionOnSet(f, E)
  BY <1>10, <1>11
<1>16. SumFunctionOnSet(f, RankWallets) = SumFunctionOnSet(f, On("none")) + SumFunctionOnSet(f, F)
  BY <1>6, <1>10, <1>11
<1> HIDE DEF C, D, E, F
<1> QED
  BY <1>3, <1>4, <1>5, <1>9, <1>12, <1>13, <1>14, <1>15, <1>16

\* The board adds up: every credited point is on exactly one line, so the ranks, Forest
\* Road's line, the venues and the wallets left out make the whole (rankLeaderboard).
THEOREM BoardAddsUp == Spec => []NothingLost
<1>1. CreditInv => NothingLost
  <2> SUFFICES ASSUME CreditInv PROVE ranking!NothingLost
    BY DEF NothingLost
  <2>1. /\ ranking!BoardShown.rankedPoints = ranking!Total(ranking!On("ranked"))
        /\ ranking!BoardShown.forestRoad.points = ranking!Total(ranking!On("forestRoad"))
    BY DEF ranking!BoardShown, ranking!RankedPoints
  <2> QED
    BY <2>1, LinesAddUp DEF ranking!NothingLost
<1> QED
  BY <1>1, CreditStarts, CreditKept, PTL DEF Spec

=============================================================================
