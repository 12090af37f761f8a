---------------------------- MODULE MechDirectory ----------------------------
(***************************************************************************)
(* The directory of Olas Mechs and its two caches.  A read of the API's    *)
(* OlasMechDirectoryClient is answered from its own cache or asks the      *)
(* adapter, whose discover_directory is answered from a second cache or    *)
(* discovers the Mechs and inspects each of them on the chain, one after   *)
(* another or in parallel, while the Mechs go on changing.  Both caches    *)
(* take the time of expiry from a clock read BEFORE the work whose result  *)
(* they keep; neither looks at what another call stored meanwhile.         *)
(*                                                                         *)
(* What a Mech shows (its subgraph record, contract and metadata) is a     *)
(* record of facts, of which _score_mech makes the directory's entry.  A   *)
(* reader of the API and the adapter's inquiry on its behalf are separate: *)
(* the reader gives up after 25 s, the adapter does not.                   *)
(***************************************************************************)
EXTENDS Integers, FiniteSets

CONSTANTS
    Mechs,                  \* the Mechs the marketplace's subgraph lists
    Facts,                  \* what a Mech may show of itself
    Readers,                \* concurrent reads of the API process
    Ttl,                    \* lifetime of an entry of either cache (60 s)
    Timeout,                \* how long a read waits for the adapter (25 s)
    MaxTime,                \* bound: the clock
    MaxChanges              \* bound: changes of the Mechs

ASSUME TtlAssumption == Ttl \in Nat \ {0}
ASSUME TimeoutAssumption == Timeout \in Nat \ {0} /\ Timeout < Ttl
ASSUME BoundsAssumption == MaxTime \in Nat /\ MaxChanges \in Nat

(* `tools` is "overlong" when a tool has a name or description that        *)
(* ToolSnapshot refuses though its schema is within 64 kB.                 *)
ASSUME FactsAssumption ==
    Facts \subseteq
        [marketplace : BOOLEAN, reachable : BOOLEAN, active : BOOLEAN, identity : BOOLEAN,
         deliveries : Nat, payment : {"USDC_TOKEN", "OTHER"}, amount : Nat,
         cid : BOOLEAN, tools : {"none", "pinned", "overlong"}]

VARIABLES
    now,                    \* the clock
    world,                  \* world[m]: what Mech m shows
    adapterCache,           \* _directory_cache: a directory and when it expires
    clientCache,            \* #cached: a directory and when it expires
    reads,                  \* reads[r]: the read r of the API
    inquiries,              \* inquiries[r]: the adapter's work for r
    served,                 \* the directory the last step answered a read with, if it did
    changes,                \* changes so far
    lastShown               \* history: lastShown[m][f], when m stopped showing f

directoryVars == <<now, world, adapterCache, clientCache, reads, inquiries, served, changes, lastShown>>

-----------------------------------------------------------------------------
(* OlasAdapterService._score_mech *)

MaxUsdcRate == 1000000

(* min(10, 2 + 2 * the number of decimal digits).  (Mutant: no minimum.) *)
DeliveryPointsUncapped(n) ==
    IF n = 0 THEN 0 ELSE 2 + 2 * Cardinality({k \in 0 .. 9 : n >= 10 ^ k})

DeliveryPoints(n) ==
    IF n = 0 THEN 0 ELSE IF n < 10 THEN 4 ELSE IF n < 100 THEN 6 ELSE IF n < 1000 THEN 8 ELSE 10

(* An inspection that fails, or finds no code at the address, tells of no  *)
(* identity, payment or tools; the rest comes from the subgraph.           *)
Inspected(f) ==
    IF f.reachable /\ f.active THEN f
    ELSE [f EXCEPT !.active = FALSE, !.identity = FALSE, !.payment = "OTHER",
                   !.amount = 0, !.tools = "none"]

(* The four checks: what each is worth, and the reason to refuse a Mech    *)
(* that does not pass it.                                                  *)
ScoreChecks(f) ==
    LET i == Inspected(f)
    IN  {[points |-> 15, code |-> "UNSUPPORTED_SIGNING_MODE", passed |-> i.marketplace],
         [points |-> 25,
          code |-> IF f.reachable THEN "INACTIVE_CONTRACT" ELSE "INSPECTION_UNAVAILABLE",
          passed |-> f.reachable /\ i.active /\ i.identity /\ i.deliveries > 0],
         [points |-> 20,
          code |-> IF i.payment # "USDC_TOKEN" THEN "PAYMENT_TYPE_UNSUPPORTED"
                   ELSE "PRICE_OUT_OF_POLICY",
          passed |-> i.payment = "USDC_TOKEN" /\ i.amount \in 1 .. MaxUsdcRate],
         [points |-> 20, code |-> IF i.cid THEN "SCHEMA_UNSUPPORTED" ELSE "METADATA_UNPINNED",
          passed |-> i.cid /\ i.tools = "pinned"]}

Reasons(f) == {c.code : c \in {d \in ScoreChecks(f) : ~d.passed}}

Points(f, p) == IF \E c \in ScoreChecks(f) : c.points = p /\ c.passed THEN p ELSE 0

(* Two checks are worth 20 points. *)
Score(f) ==
    LET twenties == {c \in ScoreChecks(f) : c.points = 20 /\ c.passed}
    IN  10 + Points(f, 15) + Points(f, 25) + 20 * Cardinality(twenties)
           + DeliveryPoints(f.deliveries)

Eligible(f) == Reasons(f) = {}

Entry(f) ==
    [eligible |-> Eligible(f), score |-> Score(f), reasons |-> Reasons(f),
     health |-> IF ~f.reachable THEN "degraded"
                ELSE IF ~f.active \/ f.deliveries = 0 THEN "inactive" ELSE "active"]

(* An inspection that fails is one Mech's matter, but a tool that          *)
(* ToolSnapshot refuses raises something inspect does not catch.           *)
Raises(f) == Inspected(f).cid /\ Inspected(f).tools = "overlong"

Entries == {Entry(f) : f \in Facts}

-----------------------------------------------------------------------------
Times == 0 .. MaxTime

Directory == [observedAt : Times, mechs : [Mechs -> Entries]]

(* A cache is empty or holds one directory. *)
Cached == [expiresAt : 0 .. MaxTime + Ttl, value : Directory]
Hit(cache) == \E c \in cache : c.expiresAt > now

Read == [at : {"idle", "waiting"}, since : Times]
IdleRead == [at |-> "idle", since |-> 0]

Inquiry ==
    [at : {"none", "asked", "inspecting", "answered", "failed"}, observedAt : Times,
     seen : UNION {[S -> Entries] : S \in SUBSET Mechs}, answer : SUBSET Directory]
NoInquiry == [at |-> "none", observedAt |-> 0, seen |-> [m \in {} |-> {}], answer |-> {}]

-----------------------------------------------------------------------------
DirectoryInit ==
    /\ now = 0
    /\ world \in [Mechs -> Facts]
    /\ adapterCache = {} /\ clientCache = {}
    /\ reads = [r \in Readers |-> IdleRead]
    /\ inquiries = [r \in Readers |-> NoInquiry]
    /\ served = {}
    /\ changes = 0
    /\ lastShown = [m \in Mechs |-> [f \in Facts |-> -2 * Ttl]]

Serve(directory) == served' = {directory}

(* read() while the cached directory has not expired. *)
ReadCached(r) ==
    /\ reads[r] = IdleRead /\ Hit(clientCache)
    /\ \E c \in clientCache : Serve(c.value)
    /\ UNCHANGED <<now, world, adapterCache, clientCache, reads, inquiries, changes, lastShown>>

(* read() asks the adapter; `since` is the clock it read first. *)
Ask(r) ==
    /\ reads[r] = IdleRead /\ ~Hit(clientCache)
    /\ inquiries[r] = NoInquiry
    /\ reads' = [reads EXCEPT ![r] = [at |-> "waiting", since |-> now]]
    /\ inquiries' = [inquiries EXCEPT ![r].at = "asked"]
    /\ served' = {}
    /\ UNCHANGED <<now, world, adapterCache, clientCache, changes, lastShown>>

(* The adapter's inquiry ends; nobody hears of it if its read has given up. *)
Reply(r, at, answer) ==
    inquiries' = [inquiries EXCEPT ![r] =
                    IF reads[r] = IdleRead THEN NoInquiry
                    ELSE [NoInquiry EXCEPT !.at = at, !.answer = answer]]

(* discover_directory reads its clock, then its cache. *)
Discover(r) ==
    /\ inquiries[r].at = "asked"
    /\ \/ /\ Hit(adapterCache)
          /\ Reply(r, "answered", {c.value : c \in adapterCache})
       \/ /\ ~Hit(adapterCache)
          /\ inquiries' = [inquiries EXCEPT ![r].at = "inspecting", ![r].observedAt = now]
    /\ served' = {}
    /\ UNCHANGED <<now, world, adapterCache, clientCache, reads, changes, lastShown>>

(* inspect(mech): the contract and the metadata as they are now. *)
Inspect(r, m) ==
    /\ inquiries[r].at = "inspecting"
    /\ m \notin DOMAIN inquiries[r].seen
    /\ IF Raises(world[m])
       THEN Reply(r, "failed", {})
       ELSE inquiries' =
                [inquiries EXCEPT ![r].seen =
                    [n \in DOMAIN @ \cup {m} |-> IF n = m THEN Entry(world[m]) ELSE @[n]]]
    /\ served' = {}
    /\ UNCHANGED <<now, world, adapterCache, clientCache, reads, changes, lastShown>>

(* discover() itself raises: the subgraph is down or lists a bad record. *)
DiscoveryFails(r) ==
    /\ inquiries[r].at = "inspecting" /\ DOMAIN inquiries[r].seen = {}
    /\ Reply(r, "failed", {})
    /\ served' = {}
    /\ UNCHANGED <<now, world, adapterCache, clientCache, reads, changes, lastShown>>

Inspection(r) == [observedAt |-> inquiries[r].observedAt, mechs |-> inquiries[r].seen]

(* Every Mech is inspected: the directory replaces what the cache holds.   *)
(* (Mutant: it expires a lifetime after the inspections, not before.)      *)
StoreLate(r) ==
    /\ inquiries[r].at = "inspecting" /\ DOMAIN inquiries[r].seen = Mechs
    /\ adapterCache' = {[expiresAt |-> now + Ttl, value |-> Inspection(r)]}
    /\ Reply(r, "answered", {Inspection(r)})
    /\ served' = {}
    /\ UNCHANGED <<now, world, clientCache, reads, changes, lastShown>>

Store(r) ==
    /\ inquiries[r].at = "inspecting" /\ DOMAIN inquiries[r].seen = Mechs
    /\ adapterCache' =
        {[expiresAt |-> inquiries[r].observedAt + Ttl, value |-> Inspection(r)]}
    /\ Reply(r, "answered", {Inspection(r)})
    /\ served' = {}
    /\ UNCHANGED <<now, world, clientCache, reads, changes, lastShown>>

(* The adapter's answer reaches the read, which caches and returns it.     *)
Fill(r) ==
    /\ reads[r].at = "waiting" /\ inquiries[r].at = "answered"
    /\ \E directory \in inquiries[r].answer :
        /\ clientCache' = {[expiresAt |-> reads[r].since + Ttl, value |-> directory]}
        /\ Serve(directory)
    /\ reads' = [reads EXCEPT ![r] = IdleRead]
    /\ inquiries' = [inquiries EXCEPT ![r] = NoInquiry]
    /\ UNCHANGED <<now, world, adapterCache, changes, lastShown>>

(* read() throws: the adapter answers an error, or the answer is lost or   *)
(* late (AbortSignal.timeout).  The adapter goes on with its inquiry.      *)
ReadFails(r) ==
    /\ reads[r].at = "waiting"
    /\ inquiries[r].at = "failed" \/ now >= reads[r].since + Timeout
    /\ reads' = [reads EXCEPT ![r] = IdleRead]
    /\ inquiries' =
        IF inquiries[r].at \in {"answered", "failed"}
        THEN [inquiries EXCEPT ![r] = NoInquiry] ELSE inquiries
    /\ served' = {}
    /\ UNCHANGED <<now, world, adapterCache, clientCache, changes, lastShown>>

(* A Mech changes: its price, its metadata, its code, or its being reachable. *)
Change(m) ==
    /\ changes < MaxChanges
    /\ changes' = changes + 1
    /\ \E f \in Facts \ {world[m]} : world' = [world EXCEPT ![m] = f]
    /\ lastShown' = [lastShown EXCEPT ![m][world[m]] = now]
    /\ served' = {}
    /\ UNCHANGED <<now, adapterCache, clientCache, reads, inquiries>>

(* Time passes, but no read waits longer than its timeout. *)
Tick ==
    /\ now < MaxTime
    /\ \A r \in Readers : reads[r].at = "waiting" => now < reads[r].since + Timeout
    /\ now' = now + 1
    /\ served' = {}
    /\ UNCHANGED <<world, adapterCache, clientCache, reads, inquiries, changes, lastShown>>

DirectoryNext ==
    \/ \E r \in Readers :
        \/ ReadCached(r) \/ Ask(r) \/ Discover(r) \/ DiscoveryFails(r)
        \/ \E m \in Mechs : Inspect(r, m)
        \/ Store(r) \/ Fill(r) \/ ReadFails(r)
    \/ \E m \in Mechs : Change(m)
    \/ Tick

DirectorySpec == DirectoryInit /\ [][DirectoryNext]_directoryVars

-----------------------------------------------------------------------------
(* Type correctness of the caches, the reads and the inquiries. *)
DirectoryTypeOK ==
    /\ now \in Times
    /\ world \in [Mechs -> Facts]
    /\ adapterCache \subseteq Cached /\ clientCache \subseteq Cached
    /\ \A cache \in {adapterCache, clientCache} : \A c, d \in cache : c = d
    /\ reads \in [Readers -> Read]
    /\ inquiries \in [Readers -> Inquiry]
    /\ served \subseteq Directory
    /\ changes \in 0 .. MaxChanges
    /\ lastShown \in [Mechs -> [Facts -> Int]]

(* When m last showed f, as of now. *)
Shown(m, f) == IF world[m] = f THEN now ELSE lastShown[m][f]

(* What a read answers of a Mech, which decides whether the gateway pays   *)
(* it, is what _score_mech makes of facts the Mech showed less than two    *)
(* lifetimes ago (an entry is used while its expiry is strictly later, at  *)
(* most Ttl - 1 units after the clock it was given): however the two       *)
(* caches, reads that overlap and inspections that outlive their read come *)
(* together.                                                               *)
ServedTellsRecentPast ==
    \A s \in served : \A m \in Mechs :
        \E f \in Facts :
            /\ s.mechs[m] = Entry(f)
            /\ now - Shown(m, f) <= 2 * (Ttl - 1)

(* The score and the verdict agree: in a directory whose Mechs were        *)
(* inspected at different times, some in vain, no Mech that is refused has *)
(* as high a score as one that is accepted (both pages show them side by   *)
(* side), whatever its history of deliveries adds.                         *)
EligibleOutscoresRefused ==
    \A c \in adapterCache : \A m, n \in Mechs :
        (c.value.mechs[m].eligible /\ ~c.value.mechs[n].eligible)
            => c.value.mechs[m].score > c.value.mechs[n].score

=============================================================================
