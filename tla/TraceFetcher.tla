---------------------------- MODULE TraceFetcher ----------------------------
(***************************************************************************)
(* tracelog.Fetcher: downloads and parses trace files for the handlers,    *)
(* the list page's prewarming and the refresh worker.  Three shared things *)
(* are worked on by concurrent calls of FetchAndParse: an LRU cache with a *)
(* TTL and two caps, the `inflight' map that makes calls for one url wait  *)
(* for the first of them, and the semaphore dlSem.                         *)
(*                                                                         *)
(* Every section under f.mu is one action; what lies between two of them   *)
(* is where the calls interleave.                                          *)
(***************************************************************************)
EXTENDS Integers, FiniteSets, SequencesExt

CONSTANTS
  Url,            \* addresses of trace files
  Caller,         \* goroutines calling FetchAndParse
  NoCaller,       \* no goroutine
  NoUrl,          \* the url of no call
  Size,           \* Size[u]: the sizes u may have when it is downloaded
  MaxEntries,     \* f.max
  MaxBytes,       \* f.maxBytes
  TTL,            \* f.ttl
  MaxDownloads    \* the capacity of dlSem

ASSUME FetcherAssumption ==
  /\ IsFiniteSet(Caller)
  /\ NoCaller \notin Caller
  /\ NoUrl \notin Url
  /\ Size \in [Url -> SUBSET Nat]
  /\ MaxEntries \in Nat \ {0}
  /\ MaxBytes \in Nat
  /\ TTL \in Nat
  /\ MaxDownloads \in Nat \ {0}

VARIABLES
  ll,         \* the list of cache entries, the most recently used first
  index,      \* the urls the map `index' has a list element for
  curBytes,   \* f.curBytes
  inflight,   \* inflight[u]: who registered the download of u, if anyone
  slots,      \* slots of dlSem that are taken
  call,       \* call[c]: the local state of a FetchAndParse
  now         \* the clock

cache == <<ll, index, curBytes>>
fetchVars == <<ll, index, curBytes, inflight, slots, call, now>>

Entry == [url : Url, parsedAt : Nat, size : Nat]

(* `first' is the goroutine whose channel a waiting call waits on; `leads' *)
(* tells a call that registered a channel of its own.                      *)
Call == [pc : {"idle", "lookup", "join", "waiting", "recheck", "queued",
               "downloading", "put", "unregister", "close"},
         url : Url \cup {NoUrl}, first : Caller \cup {NoCaller}, leads : BOOLEAN, size : Nat]

NoCall == [pc |-> "idle", url |-> NoUrl, first |-> NoCaller, leads |-> FALSE, size |-> 0]

(* Sums(l)[n] is the size of the first n entries of a list. *)
Sums(l) ==
  LET sum[n \in 0 .. Len(l)] == IF n = 0 THEN 0 ELSE sum[n - 1] + l[n].size IN sum

Total(l) == Sums(l)[Len(l)]

Node(u) == CHOOSE i \in DOMAIN ll : ll[i].url = u

AtLeast0(n) == IF n < 0 THEN 0 ELSE n
-----------------------------------------------------------------------------
FetcherInit ==
  /\ ll = <<>> /\ index = {} /\ curBytes = 0
  /\ inflight = [u \in Url |-> NoCaller]
  /\ slots = 0
  /\ call = [c \in Caller |-> NoCall]
  /\ now = 0
-----------------------------------------------------------------------------
(* The cache. *)

Hit(u) == u \in index /\ now - ll[Node(u)].parsedAt < TTL

Removed(u) ==
  /\ curBytes' = AtLeast0(curBytes - ll[Node(u)].size)
  /\ ll' = RemoveAt(ll, Node(u))
  /\ index' = index \ {u}

(* getFromCache: a hit becomes the most recent, an expired entry is dropped. *)
GetFromCache(u) ==
  \/ /\ Hit(u)
     /\ ll' = <<ll[Node(u)]>> \o RemoveAt(ll, Node(u))
     /\ UNCHANGED <<index, curBytes>>
  \/ (u \in index /\ ~Hit(u)) /\ Removed(u)
  \/ u \notin index /\ UNCHANGED cache

(* Mutant of Kept: the caps look at the number of entries only. *)
KeptByNumber(l, bytes) ==
  IF Len(l) <= MaxEntries THEN Len(l) ELSE MaxEntries

(* evictLocked removes entries from the back while one of the caps is      *)
(* exceeded and more than one is left: what remains.                       *)
Kept(l, bytes) ==
  LET fits(n) == n <= MaxEntries
                 /\ bytes - Total(SubSeq(l, n + 1, Len(l))) <= MaxBytes
  IN CHOOSE n \in 1 .. Len(l) :
       /\ n = 1 \/ fits(n)
       /\ \A m \in (n + 1) .. Len(l) : ~fits(m)

Evicted(l, bytes) ==
  LET n == Kept(l, bytes) IN
  /\ ll' = SubSeq(l, 1, n)
  /\ index' = {l[i].url : i \in 1 .. n}
  /\ curBytes' = AtLeast0(bytes - Total(SubSeq(l, n + 1, Len(l))))

(* Mutant of PutCache: the size of a replaced entry is not subtracted. *)
PutCacheAddingUp(u, size) ==
  LET new == [url |-> u, parsedAt |-> now, size |-> size] IN
  Evicted(<<new>> \o SelectSeq(ll, LAMBDA e : e.url # u), curBytes + size)

(* putCache: a known url gets a new result in its place, at the front. *)
PutCache(u, size) ==
  LET new == [url |-> u, parsedAt |-> now, size |-> size] IN
  IF u \in index
  THEN Evicted(<<new>> \o RemoveAt(ll, Node(u)), curBytes + size - ll[Node(u)].size)
  ELSE Evicted(<<new>> \o ll, curBytes + size)

(* Invalidate *)
Invalidate(u) ==
  /\ IF u \in index THEN Removed(u) ELSE UNCHANGED cache
  /\ UNCHANGED <<inflight, slots, call, now>>
-----------------------------------------------------------------------------
(* FetchAndParse *)

Goes(c, pc) ==
  call' = [call EXCEPT ![c] = IF pc = "idle" THEN NoCall ELSE [@ EXCEPT !.pc = pc]]

Fetch(c, u) ==
  /\ call[c].pc = "idle"
  /\ call' = [call EXCEPT ![c] = [NoCall EXCEPT !.pc = "lookup", !.url = u]]
  /\ UNCHANGED <<cache, inflight, slots, now>>

(* The first look into the cache, or the one after waiting. *)
LookUp(c) ==
  /\ call[c].pc \in {"lookup", "recheck"}
  /\ GetFromCache(call[c].url)
  /\ Goes(c, IF Hit(call[c].url) THEN "idle"
             ELSE IF call[c].pc = "lookup" THEN "join" ELSE "queued")
  /\ UNCHANGED <<inflight, slots, now>>

(* Wait for the call that registered the url, or register. *)
Join(c) ==
  LET u == call[c].url IN
  /\ call[c].pc = "join"
  /\ IF inflight[u] # NoCaller
     THEN /\ call' = [call EXCEPT ![c] = [@ EXCEPT !.pc = "waiting",
                                                   !.first = inflight[u]]]
          /\ UNCHANGED inflight
     ELSE /\ call' = [call EXCEPT ![c] = [@ EXCEPT !.pc = "queued", !.leads = TRUE]]
          /\ inflight' = [inflight EXCEPT ![u] = c]
  /\ UNCHANGED <<cache, slots, now>>

(* Mutant of Acquire: the semaphore is one slot too large. *)
AcquireOneMore(c) ==
  /\ call[c].pc = "queued"
  /\ slots <= MaxDownloads
  /\ slots' = slots + 1
  /\ Goes(c, "downloading")
  /\ UNCHANGED <<cache, inflight, now>>

(* dlSem <- struct{}{} *)
Acquire(c) ==
  /\ call[c].pc = "queued"
  /\ slots < MaxDownloads
  /\ slots' = slots + 1
  /\ Goes(c, "downloading")
  /\ UNCHANGED <<cache, inflight, now>>

(* Where a call goes when it is done: its deferred function, if it has one. *)
Leave(c) == IF call[c].leads THEN "unregister" ELSE "idle"

Downloaded(c, size) ==
  /\ call[c].pc = "downloading"
  /\ slots' = slots - 1
  /\ call' = [call EXCEPT ![c] = [@ EXCEPT !.pc = "put", !.size = size]]
  /\ UNCHANGED <<cache, inflight, now>>

(* Mutants of DownloadFailed: an error keeps the slot; an error returns at *)
(* once.                                                                   *)
DownloadFailedKeepingSlot(c) ==
  /\ call[c].pc = "downloading"
  /\ Goes(c, Leave(c))
  /\ UNCHANGED <<cache, inflight, slots, now>>

DownloadFailedAtOnce(c) ==
  /\ call[c].pc = "downloading"
  /\ slots' = slots - 1
  /\ Goes(c, "idle")
  /\ UNCHANGED <<cache, inflight, now>>

(* An HTTP or parse error, the client's timeout. *)
DownloadFailed(c) ==
  /\ call[c].pc = "downloading"
  /\ slots' = slots - 1
  /\ Goes(c, Leave(c))
  /\ UNCHANGED <<cache, inflight, now>>

Put(c) ==
  /\ call[c].pc = "put"
  /\ PutCache(call[c].url, call[c].size)
  /\ Goes(c, Leave(c))
  /\ UNCHANGED <<inflight, slots, now>>

(* The deferred function: delete(f.inflight, url) under the lock, then     *)
(* close(ch), which wakes everyone who waits on this channel.              *)
Unregister(c) ==
  /\ call[c].pc = "unregister"
  /\ inflight' = [inflight EXCEPT ![call[c].url] = NoCaller]
  /\ Goes(c, "close")
  /\ UNCHANGED <<cache, slots, now>>

WaitsOn(d, c) == call[d].pc = "waiting" /\ call[d].first = c

Close(c) ==
  /\ call[c].pc = "close"
  /\ call' = [d \in Caller |->
       IF d = c THEN NoCall
       ELSE IF WaitsOn(d, c) THEN [call[d] EXCEPT !.pc = "recheck"]
       ELSE call[d]]
  /\ UNCHANGED <<cache, inflight, slots, now>>

Advance ==
  /\ now' = now + 1
  /\ UNCHANGED <<cache, inflight, slots, call>>

(* What a call does on its own once it began: all but waiting for a slot   *)
(* or for another call.                                                    *)
Proceed(c) ==
  \/ LookUp(c)
  \/ Join(c)
  \/ \E u \in Url : call[c].url = u /\ \E size \in Size[u] : Downloaded(c, size)
  \/ DownloadFailed(c)
  \/ Put(c)
  \/ Unregister(c)
  \/ Close(c)

FetcherNext ==
  \/ \E c \in Caller :
       \/ \E u \in Url : Fetch(c, u)
       \/ Acquire(c)
       \/ Proceed(c)
  \/ \E u \in Url : Invalidate(u)
  \/ Advance

FetcherSpec == FetcherInit /\ [][FetcherNext]_fetchVars

(* Goroutines run, a download ends (the HTTP client has a timeout), and    *)
(* senders blocked on a channel are served in order, so that a slot that   *)
(* is free again and again is got.                                         *)
FetcherFairness ==
  \A c \in Caller : WF_fetchVars(Proceed(c)) /\ SF_fetchVars(Acquire(c))

FairFetcherSpec == FetcherSpec /\ FetcherFairness
-----------------------------------------------------------------------------
(* The cache's three pieces, changed by every lookup, insertion, eviction, *)
(* expiry and invalidation, agree: the map indexes exactly the list's      *)
(* entries, one per url, and curBytes is the sum of their sizes (the       *)
(* clamps at 0 never hide a leak).                                         *)
CacheConsistent ==
  /\ index = {ll[i].url : i \in DOMAIN ll}
  /\ \A i, j \in DOMAIN ll : ll[i].url = ll[j].url => i = j
  /\ curBytes = Total(ll)

(* The caps hold whenever the lock is free, but for one oversized entry. *)
WithinCaps ==
  Len(ll) > 1 => Len(ll) <= MaxEntries /\ Total(ll) <= MaxBytes

Leading(c) ==
  call[c].leads /\ call[c].pc \in {"queued", "downloading", "put", "unregister"}

(* No wake-up is lost: whoever waits, waits for a call about the same url  *)
(* that has not closed its channel yet, even if that call has already left *)
(* the inflight map and another one registered; and the map has exactly    *)
(* the calls that will remove themselves from it.                          *)
NoLostWakeup ==
  /\ \A c, d \in Caller : WaitsOn(d, c) =>
       /\ Leading(c) \/ call[c].pc = "close"
       /\ call[c].url = call[d].url
  /\ \A c \in Caller, u \in Url :
       inflight[u] = c <=> Leading(c) /\ call[c].url = u

(* Slots are neither leaked nor given back twice, whatever fails. *)
SlotsAccounted ==
  /\ slots = Cardinality({c \in Caller : call[c].pc = "downloading"})
  /\ slots <= MaxDownloads

(* No call hangs: neither on the channel of another one nor on dlSem. *)
EveryCallReturns ==
  \A c \in Caller : call[c].pc # "idle" ~> call[c].pc = "idle"
=============================================================================
