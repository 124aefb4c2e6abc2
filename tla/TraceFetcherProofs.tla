------------------------- MODULE TraceFetcherProofs -------------------------
(***************************************************************************)
(* What holds of the fetcher for any number of calls, urls and slots and   *)
(* any sizes and caps.  First the flights and the download slots; the      *)
(* cache plays no part in them, its steps are seen through what they leave *)
(* alone.  Then the cache.                                                 *)
(***************************************************************************)
EXTENDS TraceFetcher, SumLemmas, SequenceTheorems

(* Calls, flights and slots are well formed, and a call that is under way  *)
(* has a url.                                                              *)
FlightsTyped ==
  /\ inflight \in [Url -> Caller \cup {NoCaller}]
  /\ call \in [Caller -> Call]
  /\ \A c \in Caller : call[c].pc # "idle" => call[c].url \in Url

(* Only a call that registered runs the deferred function, and it is       *)
(* registered for nothing before it asks for a slot.                       *)
LeadersRegister ==
  \A c \in Caller :
    /\ call[c].leads => call[c].pc \in {"queued", "downloading", "put", "unregister", "close"}
    /\ call[c].pc \in {"unregister", "close"} => call[c].leads

(* The inductive invariant behind NoLostWakeup. *)
FlightInv == FlightsTyped /\ LeadersRegister /\ NoLostWakeup

(* What a step does to the calls: one of them moves within its flight, or  *)
(* begins, or joins, or ends, or closes its channel; slots apart.          *)
MovesTo(c, r) == call' = [call EXCEPT ![c] = r]

(***************************************************************************)
(* A call that goes on without touching the map, keeps what makes it a     *)
(* leader or not, and whom nobody can miss afterwards.                     *)
(***************************************************************************)
LEMMA QuietMove ==
  ASSUME FlightInv, NEW c \in Caller, NEW r \in Call, MovesTo(c, r),
         UNCHANGED inflight,
         call[c].pc # "waiting",
         call[c].pc # "close",
         r.pc # "waiting",
         r.pc # "idle" => r.url = call[c].url \/ call[c].pc = "idle",
         r.pc # "idle" => r.url \in Url,
         ~Leading(c) => ~r.leads /\ r.pc \notin {"unregister", "close"},
         Leading(c) => /\ r.leads /\ r.url = call[c].url
                       /\ r.pc \in {"queued", "downloading", "put", "unregister"}
  PROVE  FlightInv'
<1>1. FlightsTyped'
  BY DEF FlightInv, FlightsTyped, MovesTo
<1>2. LeadersRegister'
  BY DEF FlightInv, FlightsTyped, LeadersRegister, MovesTo, Leading
<1>3. \A d \in Caller : Leading(d)' <=> Leading(d)
  BY DEF FlightInv, FlightsTyped, MovesTo, Leading
<1>4. \A d, e \in Caller : WaitsOn(d, e)' => WaitsOn(d, e) /\ d # c
  BY DEF FlightInv, FlightsTyped, MovesTo, WaitsOn
<1>5. \A d \in Caller : Leading(d) \/ call[d].pc = "close" => call'[d].url = call[d].url
  BY DEF FlightInv, FlightsTyped, MovesTo
<1>6. \A d \in Caller : d # c => call'[d] = call[d]
  BY DEF FlightInv, FlightsTyped, MovesTo
<1>7. NoLostWakeup'
  <2>1. ASSUME NEW d \in Caller, NEW e \in Caller, WaitsOn(e, d)'
        PROVE  /\ Leading(d)' \/ call'[d].pc = "close"
               /\ call'[d].url = call'[e].url
    <3>1. WaitsOn(e, d) /\ e # c
      BY <2>1, <1>4
    <3>2. (Leading(d) \/ call[d].pc = "close") /\ call[d].url = call[e].url
      BY <3>1 DEF FlightInv, NoLostWakeup
    <3>3. QED
      BY <3>1, <3>2, <1>3, <1>5, <1>6
  <2>2. ASSUME NEW d \in Caller, NEW u \in Url
        PROVE  inflight'[u] = d <=> Leading(d)' /\ call'[d].url = u
    <3>1. inflight[u] = d <=> Leading(d) /\ call[d].url = u
      BY DEF FlightInv, NoLostWakeup
    <3>2. QED
      BY <3>1, <1>3, <1>5
  <2>3. QED
    BY <2>1, <2>2 DEF NoLostWakeup
<1>8. QED
  BY <1>1, <1>2, <1>7 DEF FlightInv

(* The record updates of the calls stay within Call. *)
LEMMA CallUpdates ==
  ASSUME FlightsTyped, NEW c \in Caller
  PROVE  /\ NoCall \in Call
         /\ \A u \in Url : [NoCall EXCEPT !.pc = "lookup", !.url = u] \in Call
         /\ \A pc \in {"join", "queued", "downloading", "unregister", "close"} :
              [call[c] EXCEPT !.pc = pc] \in Call
         /\ \A d \in Caller : [call[c] EXCEPT !.pc = "waiting", !.first = d] \in Call
         /\ [call[c] EXCEPT !.pc = "queued", !.leads = TRUE] \in Call
         /\ \A n \in Nat : [call[c] EXCEPT !.pc = "put", !.size = n] \in Call
BY DEF FlightsTyped, Call, NoCall

LEMMA FetchKeepsFlights ==
  ASSUME FlightInv, NEW c \in Caller, NEW u \in Url, Fetch(c, u)
  PROVE  FlightInv'
<1> DEFINE r == [NoCall EXCEPT !.pc = "lookup", !.url = u]
<1>1. r \in Call /\ r.pc = "lookup" /\ r.url = u /\ ~r.leads
  BY CallUpdates DEF FlightInv, NoCall
<1>2. MovesTo(c, r) /\ UNCHANGED inflight /\ ~Leading(c) /\ call[c].pc = "idle"
  BY DEF Fetch, MovesTo, Leading
<1>3. QED
  BY <1>1, <1>2, QuietMove

LEMMA LookUpKeepsFlights ==
  ASSUME FlightInv, NEW c \in Caller, LookUp(c)
  PROVE  FlightInv'
<1>1. /\ call[c] \in Call
      /\ call[c].pc \in {"lookup", "recheck"}
      /\ call[c].url \in Url
      /\ ~call[c].leads
      /\ ~Leading(c)
  BY DEF FlightInv, FlightsTyped, LeadersRegister, LookUp, Leading
<1>2. PICK pc \in {"idle", "join", "queued"} : Goes(c, pc)
  BY DEF LookUp
<1> DEFINE r == IF pc = "idle" THEN NoCall ELSE [call[c] EXCEPT !.pc = pc]
<1>3. MovesTo(c, r) /\ UNCHANGED inflight
  BY <1>2 DEF Goes, MovesTo, LookUp
<1>4. r \in Call
  BY CallUpdates DEF FlightInv
<1>5. /\ ~r.leads
      /\ r.pc \in {"idle", "join", "queued"}
      /\ r.pc # "idle" => r.url = call[c].url
  BY <1>1 DEF NoCall, Call
<1> HIDE DEF r
<1>6. QED
  BY <1>1, <1>3, <1>4, <1>5, QuietMove

LEMMA AcquireKeepsFlights ==
  ASSUME FlightInv, NEW c \in Caller, Acquire(c)
  PROVE  FlightInv'
<1> DEFINE r == [call[c] EXCEPT !.pc = "downloading"]
<1>1. call[c] \in Call /\ call[c].pc = "queued" /\ call[c].url \in Url
  BY DEF FlightInv, FlightsTyped, Acquire
<1>2. MovesTo(c, r) /\ UNCHANGED inflight
  BY DEF Acquire, Goes, MovesTo
<1>3. r \in Call /\ r.pc = "downloading" /\ r.url = call[c].url /\ r.leads = call[c].leads
  <2>1. r \in Call
    BY <1>1, CallUpdates DEF FlightInv
  <2>2. r.pc = "downloading" /\ r.url = call[c].url /\ r.leads = call[c].leads
    BY <1>1 DEF Call
  <2>3. QED
    BY <2>1, <2>2
<1>4. Leading(c) <=> call[c].leads
  BY <1>1 DEF Leading
<1>5. call[c].leads \in BOOLEAN
  BY <1>1 DEF Call
<1> HIDE DEF r
<1>6. QED
  BY <1>1, <1>2, <1>3, <1>4, <1>5, QuietMove

LEMMA DownloadedKeepsFlights ==
  ASSUME FlightInv, NEW c \in Caller, NEW n \in Nat, Downloaded(c, n)
  PROVE  FlightInv'
<1> DEFINE r == [call[c] EXCEPT !.pc = "put", !.size = n]
<1>1. call[c] \in Call /\ call[c].pc = "downloading" /\ call[c].url \in Url
  BY DEF FlightInv, FlightsTyped, Downloaded
<1>2. MovesTo(c, r) /\ UNCHANGED inflight
  BY DEF Downloaded, MovesTo
<1>3. r \in Call /\ r.pc = "put" /\ r.url = call[c].url /\ r.leads = call[c].leads
  <2>1. r \in Call
    BY <1>1, CallUpdates DEF FlightInv
  <2>2. r.pc = "put" /\ r.url = call[c].url /\ r.leads = call[c].leads
    BY <1>1 DEF Call
  <2>3. QED
    BY <2>1, <2>2
<1>4. Leading(c) <=> call[c].leads
  BY <1>1 DEF Leading
<1>5. call[c].leads \in BOOLEAN
  BY <1>1 DEF Call
<1> HIDE DEF r
<1>6. QED
  BY <1>1, <1>2, <1>3, <1>4, <1>5, QuietMove

(* The end of a call: a leader has its deferred function to run. *)
LEMMA LeavingKeepsFlights ==
  ASSUME FlightInv, NEW c \in Caller, call[c].pc \in {"downloading", "put"},
         Goes(c, Leave(c)), UNCHANGED inflight
  PROVE  FlightInv'
<1> DEFINE r == IF call[c].leads THEN [call[c] EXCEPT !.pc = "unregister"] ELSE NoCall
<1>1. call[c] \in Call /\ call[c].url \in Url /\ call[c].leads \in BOOLEAN
  BY DEF FlightInv, FlightsTyped, Call
<1>2. MovesTo(c, r)
  BY DEF Goes, Leave, MovesTo
<1>3. r \in Call
  BY CallUpdates DEF FlightInv
<1>4. Leading(c) <=> call[c].leads
  BY DEF Leading
<1>5. /\ call[c].leads => r.leads /\ r.pc = "unregister" /\ r.url = call[c].url
      /\ ~call[c].leads => ~r.leads /\ r.pc = "idle"
  BY <1>1 DEF Call, NoCall
<1> HIDE DEF r
<1>6. QED
  BY <1>1, <1>2, <1>3, <1>4, <1>5, QuietMove

LEMMA JoinKeepsFlights ==
  ASSUME FlightInv, NEW c \in Caller, Join(c)
  PROVE  FlightInv'
<1> DEFINE u == call[c].url
<1>1. call[c] \in Call /\ call[c].pc = "join" /\ u \in Url /\ ~call[c].leads
  BY DEF FlightInv, FlightsTyped, LeadersRegister, Join
<1>2. ~Leading(c) /\ \A d \in Caller : ~WaitsOn(d, c)
  BY <1>1 DEF Leading, FlightInv, NoLostWakeup
<1>3. CASE inflight[u] # NoCaller
  <2> DEFINE x == inflight[u]
             r == [call[c] EXCEPT !.pc = "waiting", !.first = x]
  <2>1. x \in Caller
    BY <1>1, <1>3 DEF FlightInv, FlightsTyped
  <2>2. Leading(x) /\ call[x].url = u /\ x # c
    BY <1>1, <1>2, <2>1 DEF FlightInv, NoLostWakeup
  <2>3. MovesTo(c, r) /\ UNCHANGED inflight
    BY <1>3 DEF Join, MovesTo
  <2>4. r \in Call /\ r.pc = "waiting" /\ r.first = x /\ r.url = u /\ ~r.leads
    <3>1. r \in Call
      BY <1>1, <2>1, CallUpdates DEF FlightInv
    <3>2. r.pc = "waiting" /\ r.first = x /\ r.url = u /\ ~r.leads
      BY <1>1, <2>1 DEF Call
    <3>3. QED
      BY <3>1, <3>2
  <2> HIDE DEF r
  <2>5. call'[c] = r /\ \A d \in Caller : d # c => call'[d] = call[d]
    BY <2>3 DEF MovesTo, FlightInv, FlightsTyped
  <2>6. FlightsTyped'
    BY <1>1, <2>3, <2>4, <2>5 DEF FlightInv, FlightsTyped, MovesTo
  <2>7. LeadersRegister'
    BY <2>4, <2>5 DEF FlightInv, LeadersRegister
  <2>8. \A d \in Caller : Leading(d)' <=> Leading(d)
    BY <1>1, <2>4, <2>5 DEF Leading
  <2>9. ASSUME NEW d \in Caller, NEW e \in Caller, WaitsOn(e, d)'
        PROVE  /\ Leading(d)' \/ call'[d].pc = "close"
               /\ call'[d].url = call'[e].url
    <3>1. CASE e = c
      BY <3>1, <2>2, <2>4, <2>5, <2>8, <2>9 DEF WaitsOn
    <3>2. CASE e # c
      <4>1. WaitsOn(e, d)
        BY <3>2, <2>5, <2>9 DEF WaitsOn
      <4>2. d # c
        BY <4>1, <1>2
      <4>3. QED
        BY <3>2, <4>1, <4>2, <2>5, <2>8 DEF FlightInv, NoLostWakeup
    <3>3. QED
      BY <3>1, <3>2
  <2>10. ASSUME NEW d \in Caller, NEW v \in Url
         PROVE  inflight'[v] = d <=> Leading(d)' /\ call'[d].url = v
    BY <2>3, <2>4, <2>5, <2>8, <1>2 DEF FlightInv, NoLostWakeup
  <2>11. QED
    BY <2>6, <2>7, <2>9, <2>10 DEF FlightInv, NoLostWakeup
<1>4. CASE inflight[u] = NoCaller
  <2> DEFINE r == [call[c] EXCEPT !.pc = "queued", !.leads = TRUE]
  <2>1. MovesTo(c, r) /\ inflight' = [inflight EXCEPT ![u] = c]
    BY <1>4 DEF Join, MovesTo
  <2>2. r \in Call /\ r.pc = "queued" /\ r.url = u /\ r.leads
    <3>1. r \in Call
      BY <1>1, CallUpdates DEF FlightInv
    <3>2. r.pc = "queued" /\ r.url = u /\ r.leads
      BY <1>1 DEF Call
    <3>3. QED
      BY <3>1, <3>2
  <2> HIDE DEF r
  <2>3. call'[c] = r /\ \A d \in Caller : d # c => call'[d] = call[d]
    BY <2>1 DEF MovesTo, FlightInv, FlightsTyped
  <2>4. FlightsTyped'
    BY <1>1, <2>1, <2>2, <2>3 DEF FlightInv, FlightsTyped, MovesTo
  <2>5. LeadersRegister'
    BY <2>2, <2>3 DEF FlightInv, LeadersRegister
  <2>6. Leading(c)' /\ \A d \in Caller \ {c} : Leading(d)' <=> Leading(d)
    BY <2>2, <2>3 DEF Leading
  <2>7. ASSUME NEW d \in Caller, NEW e \in Caller, WaitsOn(e, d)'
        PROVE  /\ Leading(d)' \/ call'[d].pc = "close"
               /\ call'[d].url = call'[e].url
    <3>1. e # c /\ WaitsOn(e, d)
      BY <2>2, <2>3, <2>7 DEF WaitsOn
    <3>2. d # c
      BY <3>1, <1>2
    <3>3. QED
      BY <3>1, <3>2, <2>3, <2>6 DEF FlightInv, NoLostWakeup
  <2>8. ASSUME NEW d \in Caller, NEW v \in Url
        PROVE  inflight'[v] = d <=> Leading(d)' /\ call'[d].url = v
    <3>1. inflight'[v] = IF v = u THEN c ELSE inflight[v]
      BY <1>1, <2>1 DEF FlightInv, FlightsTyped
    <3>2. inflight[v] = d <=> Leading(d) /\ call[d].url = v
      BY DEF FlightInv, NoLostWakeup
    <3>3. d # NoCaller
      BY FetcherAssumption
    <3>4. QED
      BY <1>2, <1>4, <2>2, <2>3, <2>6, <3>1, <3>2, <3>3
  <2>9. QED
    BY <2>4, <2>5, <2>7, <2>8 DEF FlightInv, NoLostWakeup
<1>5. QED
  BY <1>3, <1>4

LEMMA UnregisterKeepsFlights ==
  ASSUME FlightInv, NEW c \in Caller, Unregister(c)
  PROVE  FlightInv'
<1> DEFINE u == call[c].url
           r == [call[c] EXCEPT !.pc = "close"]
<1>1. call[c] \in Call /\ call[c].pc = "unregister" /\ u \in Url /\ call[c].leads
  BY DEF FlightInv, FlightsTyped, LeadersRegister, Unregister
<1>2. MovesTo(c, r) /\ inflight' = [inflight EXCEPT ![u] = NoCaller]
  BY DEF Unregister, Goes, MovesTo
<1>3. r \in Call /\ r.pc = "close" /\ r.url = u /\ r.leads
  <2>1. r \in Call
    BY <1>1, CallUpdates DEF FlightInv
  <2>2. r.pc = "close" /\ r.url = u /\ r.leads
    BY <1>1 DEF Call
  <2>3. QED
    BY <2>1, <2>2
<1> HIDE DEF r
<1>4. call'[c] = r /\ \A d \in Caller : d # c => call'[d] = call[d]
  BY <1>2 DEF MovesTo, FlightInv, FlightsTyped
<1>5. FlightsTyped'
  BY <1>1, <1>2, <1>3, <1>4 DEF FlightInv, FlightsTyped, MovesTo
<1>6. LeadersRegister'
  BY <1>3, <1>4 DEF FlightInv, LeadersRegister
<1>7. ~Leading(c)' /\ \A d \in Caller \ {c} : Leading(d)' <=> Leading(d)
  BY <1>3, <1>4 DEF Leading
<1>8. ASSUME NEW d \in Caller, NEW e \in Caller, WaitsOn(e, d)'
      PROVE  /\ Leading(d)' \/ call'[d].pc = "close"
             /\ call'[d].url = call'[e].url
  <2>1. e # c /\ WaitsOn(e, d)
    BY <1>3, <1>4, <1>8 DEF WaitsOn
  <2>2. QED
    BY <2>1, <1>1, <1>3, <1>4, <1>7 DEF FlightInv, NoLostWakeup
<1>9. ASSUME NEW d \in Caller, NEW v \in Url
      PROVE  inflight'[v] = d <=> Leading(d)' /\ call'[d].url = v
  <2>1. inflight'[v] = IF v = u THEN NoCaller ELSE inflight[v]
    BY <1>1, <1>2 DEF FlightInv, FlightsTyped
  <2>2. \A x \in Caller, w \in Url : inflight[w] = x <=> Leading(x) /\ call[x].url = w
    BY DEF FlightInv, NoLostWakeup
  <2>3. d # NoCaller
    BY FetcherAssumption
  <2>4. inflight[u] = c
    BY <1>1, <2>2 DEF Leading
  <2>5. QED
    BY <1>1, <1>4, <1>7, <2>1, <2>2, <2>3, <2>4
<1>10. QED
  BY <1>5, <1>6, <1>8, <1>9 DEF FlightInv, NoLostWakeup

LEMMA CloseKeepsFlights ==
  ASSUME FlightInv, NEW c \in Caller, Close(c)
  PROVE  FlightInv'
<1>1. call[c].pc = "close" /\ call \in [Caller -> Call]
  BY DEF Close, FlightInv, FlightsTyped
<1>2. /\ call'[c] = NoCall
      /\ \A d \in Caller : d # c /\ WaitsOn(d, c) =>
                             call'[d] = [call[d] EXCEPT !.pc = "recheck"]
      /\ \A d \in Caller : d # c /\ ~WaitsOn(d, c) => call'[d] = call[d]
      /\ inflight' = inflight
  BY DEF Close
<1>3. \A d \in Caller : d # c /\ WaitsOn(d, c) =>
        /\ call[d].pc = "waiting"
        /\ call'[d] \in Call
        /\ call'[d].pc = "recheck"
        /\ call'[d].url = call[d].url
        /\ call'[d].leads = call[d].leads
  <2>1. ASSUME NEW r \in Call
        PROVE  LET woken == [r EXCEPT !.pc = "recheck"] IN
               /\ woken \in Call
               /\ woken.pc = "recheck" /\ woken.url = r.url /\ woken.leads = r.leads
    BY DEF Call
  <2>2. ASSUME NEW d \in Caller, d # c, WaitsOn(d, c)
        PROVE  /\ call[d].pc = "waiting"
               /\ call'[d] \in Call
               /\ call'[d].pc = "recheck"
               /\ call'[d].url = call[d].url
               /\ call'[d].leads = call[d].leads
    <3>1. call[d] \in Call /\ call[d].pc = "waiting"
      BY <1>1, <2>2 DEF WaitsOn
    <3>2. call'[d] = [call[d] EXCEPT !.pc = "recheck"]
      BY <1>2, <2>2
    <3>3. QED
      BY <2>1, <3>1, <3>2
  <2>3. QED
    BY <2>2
<1>4. NoCall \in Call /\ NoCall.pc = "idle" /\ ~NoCall.leads
  BY DEF NoCall, Call
<1>5. FlightsTyped'
  <2>1. \A d \in Caller : call'[d] \in Call
    BY <1>1, <1>2, <1>3, <1>4
  <2>2. call' \in [Caller -> Call]
    BY <2>1 DEF Close
  <2>3. \A d \in Caller : call'[d].pc # "idle" => call'[d].url \in Url
    BY <1>2, <1>3, <1>4 DEF FlightInv, FlightsTyped
  <2>4. QED
    BY <1>2, <2>2, <2>3 DEF FlightInv, FlightsTyped
<1>6. LeadersRegister'
  <2>1. ASSUME NEW d \in Caller
        PROVE  /\ call'[d].leads => call'[d].pc \in {"queued", "downloading", "put",
                                                     "unregister", "close"}
               /\ call'[d].pc \in {"unregister", "close"} => call'[d].leads
    BY <1>2, <1>3, <1>4 DEF FlightInv, LeadersRegister
  <2>2. QED
    BY <2>1 DEF LeadersRegister
<1>7. \A d \in Caller : Leading(d)' <=> Leading(d)
  BY <1>1, <1>2, <1>3, <1>4 DEF Leading
<1>8. ASSUME NEW d \in Caller, NEW e \in Caller, WaitsOn(e, d)'
      PROVE  /\ Leading(d)' \/ call'[d].pc = "close"
             /\ call'[d].url = call'[e].url
  <2>1. e # c /\ ~WaitsOn(e, c) /\ WaitsOn(e, d) /\ d # c
    BY <1>2, <1>3, <1>4, <1>8 DEF WaitsOn
  <2>2. (Leading(d) \/ call[d].pc = "close") /\ call[d].url = call[e].url
    BY <2>1 DEF FlightInv, NoLostWakeup
  <2>3. call[d].pc # "waiting"
    BY <2>2 DEF Leading
  <2>4. call'[d] = call[d] /\ call'[e] = call[e]
    BY <1>2, <2>1, <2>3 DEF WaitsOn
  <2>5. QED
    BY <1>7, <2>2, <2>4
<1>9. ASSUME NEW d \in Caller, NEW v \in Url
      PROVE  inflight'[v] = d <=> Leading(d)' /\ call'[d].url = v
  <2>1. inflight[v] = d <=> Leading(d) /\ call[d].url = v
    BY DEF FlightInv, NoLostWakeup
  <2>2. Leading(d) => call'[d] = call[d]
    BY <1>1, <1>2 DEF Leading, WaitsOn
  <2>3. QED
    BY <1>2, <1>7, <2>1, <2>2
<1>10. QED
  BY <1>5, <1>6, <1>8, <1>9 DEF FlightInv, NoLostWakeup

LEMMA FlightStep ==
  FlightInv /\ [FetcherNext]_fetchVars => FlightInv'
<1> SUFFICES ASSUME FlightInv, [FetcherNext]_fetchVars PROVE FlightInv'
  OBVIOUS
<1>1. ASSUME NEW c \in Caller, Proceed(c) PROVE FlightInv'
  <2>1. CASE LookUp(c)
    BY <2>1, LookUpKeepsFlights
  <2>2. CASE Join(c)
    BY <2>2, JoinKeepsFlights
  <2>3. ASSUME NEW u \in Url, NEW n \in Size[u], Downloaded(c, n) PROVE FlightInv'
    <3>1. n \in Nat
      BY FetcherAssumption
    <3>2. QED
      BY <2>3, <3>1, DownloadedKeepsFlights
  <2>4. CASE DownloadFailed(c)
    BY <2>4, LeavingKeepsFlights DEF DownloadFailed
  <2>5. CASE Put(c)
    BY <2>5, LeavingKeepsFlights DEF Put
  <2>6. CASE Unregister(c)
    BY <2>6, UnregisterKeepsFlights
  <2>7. CASE Close(c)
    BY <2>7, CloseKeepsFlights
  <2>8. QED
    BY <1>1, <2>1, <2>2, <2>3, <2>4, <2>5, <2>6, <2>7 DEF Proceed
<1>2. ASSUME UNCHANGED <<call, inflight>> PROVE FlightInv'
  BY <1>2 DEF FlightInv, FlightsTyped, LeadersRegister, NoLostWakeup, WaitsOn, Leading
<1>3. QED
  BY <1>1, <1>2, FetchKeepsFlights, AcquireKeepsFlights
     DEF FetcherNext, Invalidate, Advance, fetchVars

(***************************************************************************)
(* No wake-up is lost: whoever waits, waits for a call about the same url  *)
(* that will still close its channel.                                      *)
(***************************************************************************)
THEOREM WakeupsKept == FetcherSpec => []NoLostWakeup
<1>1. FetcherInit => FlightInv
  BY FetcherAssumption
     DEF FetcherInit, FlightInv, FlightsTyped, LeadersRegister, NoLostWakeup,
         WaitsOn, Leading, NoCall, Call
<1>2. FlightInv => NoLostWakeup
  BY DEF FlightInv
<1>3. QED
  BY <1>1, <1>2, FlightStep, PTL DEF FetcherSpec
-----------------------------------------------------------------------------
Downloading == {c \in Caller : call[c].pc = "downloading"}

(* The calls that download, after a call's step. *)
LEMMA DownloadingStep ==
  ASSUME call \in [Caller -> Call], NEW c \in Caller, NEW r, MovesTo(c, r)
  PROVE  Downloading' = IF r.pc = "downloading" THEN Downloading \cup {c}
                                                ELSE Downloading \ {c}
BY DEF Downloading, MovesTo

LEMMA SlotsStep ==
  FlightInv /\ FlightInv' /\ SlotsAccounted /\ [FetcherNext]_fetchVars => SlotsAccounted'
<1> SUFFICES ASSUME FlightInv, SlotsAccounted, [FetcherNext]_fetchVars
             PROVE  SlotsAccounted'
  OBVIOUS
<1>1. /\ call \in [Caller -> Call]
      /\ IsFiniteSet(Downloading)
      /\ Cardinality(Downloading) \in Nat
      /\ slots = Cardinality(Downloading)
      /\ slots <= MaxDownloads
      /\ MaxDownloads \in Nat
  <2>1. IsFiniteSet(Downloading)
    BY FetcherAssumption, FS_Subset DEF Downloading
  <2>2. QED
    BY <2>1, FS_CardinalityType, FetcherAssumption
       DEF SlotsAccounted, Downloading, FlightInv, FlightsTyped
<1>2. SlotsAccounted' <=> slots' = Cardinality(Downloading') /\ slots' <= MaxDownloads
  BY DEF SlotsAccounted, Downloading
<1>3. ASSUME NEW c \in Caller, Acquire(c) PROVE SlotsAccounted'
  <2>1. c \notin Downloading
    BY <1>3 DEF Acquire, Downloading
  <2>2. MovesTo(c, [call[c] EXCEPT !.pc = "downloading"])
    BY <1>3 DEF Acquire, Goes, MovesTo
  <2>3. [call[c] EXCEPT !.pc = "downloading"].pc = "downloading"
    BY <1>1 DEF Call
  <2>4. Downloading' = Downloading \cup {c}
    BY <1>1, <2>2, <2>3, DownloadingStep
  <2>5. Cardinality(Downloading') = slots + 1
    BY <1>1, <2>1, <2>4, FS_AddElement
  <2>6. QED
    BY <1>1, <1>2, <1>3, <2>5 DEF Acquire
<1>4. ASSUME NEW c \in Caller, NEW r, MovesTo(c, r), call[c].pc = "downloading",
             r.pc # "downloading", slots' = slots - 1
      PROVE  SlotsAccounted'
  <2>1. c \in Downloading
    BY <1>4 DEF Downloading
  <2>2. Downloading' = Downloading \ {c}
    BY <1>1, <1>4, DownloadingStep
  <2>3. Cardinality(Downloading') = slots - 1
    BY <1>1, <2>1, <2>2, FS_RemoveElement
  <2>4. QED
    BY <1>1, <1>2, <1>4, <2>3
<1>5. ASSUME UNCHANGED slots, Downloading' = Downloading PROVE SlotsAccounted'
  BY <1>1, <1>2, <1>5
<1>6. ASSUME NEW c \in Caller, NEW r, MovesTo(c, r), call[c].pc # "downloading",
             r.pc # "downloading", UNCHANGED slots
      PROVE  SlotsAccounted'
  <2>1. Downloading' = Downloading \ {c} /\ c \notin Downloading
    BY <1>1, <1>6, DownloadingStep DEF Downloading
  <2>2. QED
    BY <1>5, <1>6, <2>1
<1>7. ASSUME NEW c \in Caller, NEW pc \in {"idle", "join", "queued", "unregister", "close"},
             Goes(c, pc)
      PROVE  \E r : MovesTo(c, r) /\ r.pc # "downloading"
  <2> DEFINE r == IF pc = "idle" THEN NoCall ELSE [call[c] EXCEPT !.pc = pc]
  <2>1. r.pc = pc
    BY <1>1 DEF NoCall, Call
  <2>2. MovesTo(c, r)
    BY <1>7 DEF Goes, MovesTo
  <2> HIDE DEF r
  <2>3. QED
    BY <2>1, <2>2
<1>8. ASSUME NEW c \in Caller, Proceed(c) PROVE SlotsAccounted'
  <2>1. CASE LookUp(c)
    <3>1. PICK pc \in {"idle", "join", "queued"} : Goes(c, pc)
      BY <2>1 DEF LookUp
    <3>2. QED
      BY <2>1, <3>1, <1>6, <1>7 DEF LookUp
  <2>2. CASE Join(c)
    <3>1. \E r : MovesTo(c, r) /\ r.pc # "downloading"
      <4>1. CASE inflight[call[c].url] # NoCaller
        <5> DEFINE r == [call[c] EXCEPT !.pc = "waiting", !.first = inflight[call[c].url]]
        <5>1. MovesTo(c, r) /\ r.pc = "waiting"
          BY <1>1, <2>2, <4>1 DEF Join, MovesTo, Call
        <5> HIDE DEF r
        <5>2. QED
          BY <5>1
      <4>2. CASE inflight[call[c].url] = NoCaller
        <5> DEFINE r == [call[c] EXCEPT !.pc = "queued", !.leads = TRUE]
        <5>1. MovesTo(c, r) /\ r.pc = "queued"
          BY <1>1, <2>2, <4>2 DEF Join, MovesTo, Call
        <5> HIDE DEF r
        <5>2. QED
          BY <5>1
      <4>3. QED
        BY <4>1, <4>2
    <3>2. QED
      BY <2>2, <3>1, <1>6 DEF Join
  <2>3. ASSUME NEW n, Downloaded(c, n) PROVE SlotsAccounted'
    <3> DEFINE r == [call[c] EXCEPT !.pc = "put", !.size = n]
    <3>1. MovesTo(c, r) /\ r.pc = "put"
      BY <1>1, <2>3 DEF Downloaded, MovesTo, Call
    <3> HIDE DEF r
    <3>2. QED
      BY <2>3, <3>1, <1>4 DEF Downloaded
  <2>4. CASE DownloadFailed(c)
    <3>1. Leave(c) \in {"unregister", "idle"}
      BY DEF Leave
    <3>2. QED
      BY <2>4, <3>1, <1>4, <1>7 DEF DownloadFailed
  <2>5. CASE Put(c)
    <3>1. Leave(c) \in {"unregister", "idle"}
      BY DEF Leave
    <3>2. QED
      BY <2>5, <3>1, <1>6, <1>7 DEF Put
  <2>6. CASE Unregister(c)
    BY <2>6, <1>6, <1>7 DEF Unregister
  <2>7. CASE Close(c)
    <3>1. \A d \in Caller : call'[d].pc = "downloading" <=> call[d].pc = "downloading"
      <4>1. ASSUME NEW d \in Caller
            PROVE  call'[d].pc = "downloading" <=> call[d].pc = "downloading"
        <5>1. call'[d] = IF d = c THEN NoCall
                         ELSE IF WaitsOn(d, c) THEN [call[d] EXCEPT !.pc = "recheck"]
                         ELSE call[d]
          BY <2>7 DEF Close
        <5>2. NoCall.pc = "idle" /\ [call[d] EXCEPT !.pc = "recheck"].pc = "recheck"
          BY <1>1 DEF NoCall, Call
        <5>3. QED
          BY <2>7, <5>1, <5>2 DEF Close, WaitsOn
      <4>2. QED
        BY <4>1
    <3>2. QED
      BY <2>7, <3>1, <1>5 DEF Close, Downloading
  <2>8. QED
    BY <1>8, <2>1, <2>2, <2>3, <2>4, <2>5, <2>6, <2>7 DEF Proceed
<1>9. ASSUME NEW c \in Caller, NEW u \in Url, Fetch(c, u) PROVE SlotsAccounted'
  <2> DEFINE r == [NoCall EXCEPT !.pc = "lookup", !.url = u]
  <2>1. MovesTo(c, r) /\ r.pc = "lookup"
    BY <1>9 DEF Fetch, MovesTo, NoCall
  <2> HIDE DEF r
  <2>2. QED
    BY <1>9, <2>1, <1>6 DEF Fetch
<1>10. QED
  BY <1>3, <1>5, <1>8, <1>9
     DEF FetcherNext, Invalidate, Advance, fetchVars, Downloading

(***************************************************************************)
(* The slots that are taken are those of the calls that download, and      *)
(* there are never more than the semaphore has.                            *)
(***************************************************************************)
THEOREM SlotsKept == FetcherSpec => []SlotsAccounted
<1>1. FetcherInit => FlightInv /\ SlotsAccounted
  <2> SUFFICES ASSUME FetcherInit PROVE FlightInv /\ SlotsAccounted
    OBVIOUS
  <2>1. FlightInv
    BY FetcherAssumption
       DEF FetcherInit, FlightInv, FlightsTyped, LeadersRegister, NoLostWakeup,
           WaitsOn, Leading, NoCall, Call
  <2>2. {c \in Caller : call[c].pc = "downloading"} = {}
    BY DEF FetcherInit, NoCall
  <2>3. Cardinality({c \in Caller : call[c].pc = "downloading"}) = 0
    BY <2>2, FS_EmptySet
  <2>4. slots = 0 /\ 0 <= MaxDownloads
    BY FetcherAssumption DEF FetcherInit
  <2>5. QED
    BY <2>1, <2>3, <2>4 DEF SlotsAccounted
<1>2. QED
  BY <1>1, FlightStep, SlotsStep, PTL DEF FetcherSpec
-----------------------------------------------------------------------------
(* Sums of sizes *)

IsSums(f, l, n) ==
  f = [m \in 0 .. n |-> IF m = 0 THEN 0 ELSE f[m - 1] + l[m].size]

LEMMA SumsExist ==
  ASSUME NEW l \in Seq(Entry), NEW k \in 0 .. Len(l)
  PROVE  \E f : IsSums(f, l, k)
<1> DEFINE bad == {n \in 0 .. Len(l) : ~\E f : IsSums(f, l, n)}
<1>0. Len(l) \in Nat
  OBVIOUS
<1>1. SUFFICES ASSUME bad # {} PROVE FALSE
  OBVIOUS
<1>2. PICK n \in bad : \A m \in bad : n <= m
  <2>1. bad \in SUBSET Nat
    BY <1>0
  <2> HIDE DEF bad
  <2>2. QED
    BY <1>1, <2>1, LeastNumber
<1>3. n \in 0 .. Len(l) /\ ~\E f : IsSums(f, l, n)
  OBVIOUS
<1>4. CASE n = 0
  <2>1. IsSums([m \in 0 .. 0 |-> 0], l, 0)
    BY DEF IsSums
  <2>2. QED
    BY <1>3, <1>4, <2>1
<1>5. CASE n # 0
  <2>1. n - 1 \in 0 .. Len(l) /\ ~(n <= n - 1)
    BY <1>0, <1>3, <1>5
  <2>2. PICK f : IsSums(f, l, n - 1)
    BY <1>2, <2>1
  <2> DEFINE g == [m \in 0 .. n |-> IF m = n THEN f[n - 1] + l[n].size ELSE f[m]]
  <2>3. ASSUME NEW m \in 0 .. n
        PROVE  g[m] = IF m = 0 THEN 0 ELSE g[m - 1] + l[m].size
    <3>1. CASE m = n
      BY <1>0, <1>3, <1>5, <3>1
    <3>2. CASE m # n
      <4>1. m \in 0 .. (n - 1)
        BY <1>0, <1>3, <3>2
      <4>2. f[m] = IF m = 0 THEN 0 ELSE f[m - 1] + l[m].size
        BY <2>2, <4>1 DEF IsSums
      <4>3. m # 0 => m - 1 \in 0 .. n /\ m - 1 # n
        BY <1>0, <1>3, <3>2
      <4>4. QED
        BY <3>2, <4>2, <4>3
    <3>3. QED
      BY <3>1, <3>2
  <2>4. IsSums(g, l, n)
    BY <2>3 DEF IsSums
  <2>5. QED
    BY <1>3, <2>4
<1>6. QED
  BY <1>4, <1>5

(* The sums add one size after the other, *)
LEMMA SumsStep ==
  ASSUME NEW l \in Seq(Entry)
  PROVE  /\ Sums(l)[0] = 0
         /\ \A n \in 1 .. Len(l) : Sums(l)[n] = Sums(l)[n - 1] + l[n].size
<1>1. Len(l) \in Nat
  OBVIOUS
<1>2. \E f : IsSums(f, l, Len(l))
  BY <1>1, SumsExist
<1>3. Sums(l) = CHOOSE f : IsSums(f, l, Len(l))
  BY DEF Sums, IsSums
<1>4. IsSums(Sums(l), l, Len(l))
  BY <1>2, <1>3
<1>5. QED
  BY <1>1, <1>4 DEF IsSums

(* are numbers, *)
LEMMA SumsType ==
  ASSUME NEW l \in Seq(Entry), NEW k \in 0 .. Len(l)
  PROVE  Sums(l)[k] \in Nat
<1> DEFINE bad == {n \in 0 .. Len(l) : Sums(l)[n] \notin Nat}
<1>0. Len(l) \in Nat
  OBVIOUS
<1>1. SUFFICES ASSUME bad # {} PROVE FALSE
  OBVIOUS
<1>2. PICK n \in bad : \A m \in bad : n <= m
  <2>1. bad \in SUBSET Nat
    BY <1>0
  <2> HIDE DEF bad
  <2>2. QED
    BY <1>1, <2>1, LeastNumber
<1>3. CASE n = 0
  BY <1>2, <1>3, SumsStep
<1>4. CASE n # 0
  <2>1. n \in 1 .. Len(l) /\ n - 1 \in 0 .. Len(l) /\ ~(n <= n - 1)
    BY <1>0, <1>4
  <2>2. Sums(l)[n - 1] \in Nat
    BY <1>2, <2>1
  <2>3. l[n].size \in Nat
    <3>1. l[n] \in Entry
      BY <2>1
    <3>2. QED
      BY <3>1 DEF Entry
  <2>4. QED
    BY <2>1, <2>2, <2>3, SumsStep
<1>5. QED
  BY <1>3, <1>4

LEMMA TotalType ==
  ASSUME NEW l \in Seq(Entry)
  PROVE  Total(l) \in Nat
BY SumsType DEF Total

(* and depend on the entries they add up. *)
LEMMA SumsOfConcat ==
  ASSUME NEW a \in Seq(Entry), NEW b \in Seq(Entry), NEW k \in 0 .. (Len(a) + Len(b))
  PROVE  Sums(a \o b)[k] = IF k <= Len(a) THEN Sums(a)[k] ELSE Total(a) + Sums(b)[k - Len(a)]
<1> DEFINE l == a \o b
           Expected(n) == IF n <= Len(a) THEN Sums(a)[n] ELSE Total(a) + Sums(b)[n - Len(a)]
           bad == {n \in 0 .. (Len(a) + Len(b)) : Sums(l)[n] # Expected(n)}
<1>0. /\ Len(a) \in Nat /\ Len(b) \in Nat /\ l \in Seq(Entry) /\ Len(l) = Len(a) + Len(b)
      /\ \A n \in 1 .. Len(l) : l[n] = IF n <= Len(a) THEN a[n] ELSE b[n - Len(a)]
  BY ConcatProperties
<1>1. SUFFICES ASSUME bad # {} PROVE FALSE
  OBVIOUS
<1>2. PICK n \in bad : \A m \in bad : n <= m
  <2>1. bad \in SUBSET Nat
    BY <1>0
  <2> HIDE DEF bad
  <2>2. QED
    BY <1>1, <2>1, LeastNumber
<1>3. n \in 0 .. (Len(a) + Len(b)) /\ Sums(l)[n] # Expected(n)
  OBVIOUS
<1> HIDE DEF l
<1>4. CASE n = 0
  <2>1. Sums(l)[0] = 0 /\ Sums(a)[0] = 0
    BY <1>0, SumsStep
  <2>2. QED
    BY <1>0, <1>3, <1>4, <2>1
<1>5. CASE n # 0
  <2>1. n \in 1 .. Len(l) /\ n - 1 \in 0 .. (Len(a) + Len(b)) /\ ~(n <= n - 1)
    BY <1>0, <1>3, <1>5
  <2>2. Sums(l)[n - 1] = Expected(n - 1)
    BY <1>2, <2>1
  <2>3. Sums(l)[n] = Sums(l)[n - 1] + l[n].size
    BY <1>0, <2>1, SumsStep
  <2>4. CASE n <= Len(a)
    <3>1. n \in 1 .. Len(a) /\ n - 1 <= Len(a)
      BY <1>0, <2>1, <2>4
    <3>2. Sums(a)[n] = Sums(a)[n - 1] + a[n].size
      BY <3>1, SumsStep
    <3>3. QED
      BY <1>0, <1>3, <2>1, <2>2, <2>3, <2>4, <3>1, <3>2
  <2>5. CASE n > Len(a)
    <3> DEFINE m == n - Len(a)
    <3>1. m \in 1 .. Len(b) /\ ~(n <= Len(a)) /\ l[n] = b[m] /\ (n - 1) - Len(a) = m - 1
      BY <1>0, <2>1, <2>5
    <3>2. Sums(b)[m] = Sums(b)[m - 1] + b[m].size
      BY <3>1, SumsStep
    <3>3. b[m].size \in Nat
      <4>1. b[m] \in Entry
        BY <3>1
      <4>2. QED
        BY <4>1 DEF Entry
    <3>4. Expected(n - 1) = Total(a) + Sums(b)[m - 1]
      <4>1. CASE m = 1
        <5>1. n - 1 = Len(a) /\ n - 1 <= Len(a) /\ m - 1 = 0
          BY <1>0, <2>1, <4>1
        <5>2. Sums(b)[0] = 0
          BY SumsStep
        <5>3. Total(a) \in Nat
          BY TotalType
        <5>4. QED
          BY <5>1, <5>2, <5>3 DEF Total
      <4>2. CASE m # 1
        <5>1. ~(n - 1 <= Len(a))
          BY <1>0, <2>1, <3>1, <4>2
        <5>2. QED
          BY <3>1, <5>1
      <4>3. QED
        BY <4>1, <4>2
    <3>5. Total(a) \in Nat /\ Sums(b)[m - 1] \in Nat
      <4>1. m - 1 \in 0 .. Len(b)
        BY <1>0, <3>1
      <4>2. QED
        BY <4>1, TotalType, SumsType
    <3>6. Expected(n) = Total(a) + Sums(b)[m]
      BY <3>1
    <3> HIDE DEF m, Expected
    <3>7. QED
      BY <1>3, <2>2, <2>3, <3>1, <3>2, <3>3, <3>4, <3>5, <3>6
  <2>6. QED
    BY <1>0, <2>1, <2>4, <2>5
<1>6. QED
  BY <1>4, <1>5

LEMMA TotalOfConcat ==
  ASSUME NEW a \in Seq(Entry), NEW b \in Seq(Entry)
  PROVE  Total(a \o b) = Total(a) + Total(b)
<1>1. Len(a) \in Nat /\ Len(b) \in Nat /\ Len(a \o b) = Len(a) + Len(b)
  BY ConcatProperties
<1>2. Total(a \o b) = Sums(a \o b)[Len(a) + Len(b)]
  BY <1>1 DEF Total
<1>3. CASE Len(b) = 0
  <2>1. Total(a \o b) = Sums(a)[Len(a)]
    BY <1>1, <1>2, <1>3, SumsOfConcat
  <2>2. Total(b) = 0
    BY <1>3, SumsStep DEF Total
  <2>3. Total(a) \in Nat
    BY TotalType
  <2>4. QED
    BY <2>1, <2>2, <2>3 DEF Total
<1>4. CASE Len(b) # 0
  <2>1. ~(Len(a) + Len(b) <= Len(a)) /\ (Len(a) + Len(b)) - Len(a) = Len(b)
    BY <1>1, <1>4
  <2>2. Total(a \o b) = Total(a) + Sums(b)[Len(b)]
    BY <1>1, <1>2, <2>1, SumsOfConcat
  <2>3. QED
    BY <2>2 DEF Total
<1>5. QED
  BY <1>3, <1>4

LEMMA TotalOfOne ==
  ASSUME NEW e \in Entry
  PROVE  <<e>> \in Seq(Entry) /\ Len(<<e>>) = 1 /\ Total(<<e>>) = e.size
<1>1. <<e>> \in Seq(Entry) /\ Len(<<e>>) = 1 /\ <<e>>[1] = e /\ e.size \in Nat
  BY DEF Entry
<1>2. Sums(<<e>>)[0] = 0 /\ Sums(<<e>>)[1] = Sums(<<e>>)[0] + e.size
  <2>1. 1 \in 1 .. Len(<<e>>) /\ 1 - 1 = 0
    BY <1>1
  <2>2. QED
    BY <1>1, <2>1, SumsStep
<1>3. QED
  BY <1>1, <1>2 DEF Total
-----------------------------------------------------------------------------
(* Lists of entries *)

Urls(l) == {l[i].url : i \in 1 .. Len(l)}
Distinct(l) == \A i, j \in 1 .. Len(l) : l[i].url = l[j].url => i = j
Sound(l) == l \in Seq(Entry) /\ Distinct(l)

LEMMA Without ==
  ASSUME NEW l, Sound(l), NEW i \in 1 .. Len(l)
  PROVE  LET r == RemoveAt(l, i) IN
         /\ Sound(r) /\ Len(r) = Len(l) - 1 /\ Total(r) = Total(l) - l[i].size
         /\ Urls(r) = Urls(l) \ {l[i].url}
<1> DEFINE a == SubSeq(l, 1, i - 1)
           b == SubSeq(l, i + 1, Len(l))
           r == RemoveAt(l, i)
<1>0. l \in Seq(Entry) /\ Distinct(l) /\ Len(l) \in Nat /\ i \in Nat /\ l[i] \in Entry
  BY DEF Sound
<1>1. /\ a \in Seq(Entry) /\ Len(a) = i - 1 /\ \A j \in 1 .. (i - 1) : a[j] = l[j]
      /\ b \in Seq(Entry) /\ Len(b) = Len(l) - i /\ \A j \in 1 .. (Len(l) - i) : b[j] = l[i + j]
  <2>1. \A j \in 1 .. Len(l) : l[j] \in Entry
    BY <1>0
  <2>2. a \in Seq(Entry) /\ Len(a) = i - 1 /\ \A j \in 1 .. (i - 1) : a[j] = l[j]
    BY <1>0, <2>1, SubSeqProperties
  <2>3. b \in Seq(Entry) /\ Len(b) = Len(l) - i /\ \A j \in 1 .. (Len(l) - i) : b[j] = l[i + j]
    BY <1>0, <2>1, SubSeqProperties
  <2>4. QED
    BY <2>2, <2>3
<1>2. r = a \o b
  BY DEF RemoveAt
<1>3. l = a \o (<<l[i]>> \o b)
  <2>1. SubSeq(l, i, Len(l)) = <<l[i]>> \o b
    <3>1. Len(l) \in i .. Len(l)
      BY <1>0
    <3>2. QED
      BY <1>0, <3>1, SubSeqRecursiveFirst
  <2>2. SubSeq(l, 1, i - 1) \o SubSeq(l, (i - 1) + 1, Len(l)) = SubSeq(l, 1, Len(l))
    <3>1. /\ 1 \in 1 .. (Len(l) + 1) /\ i - 1 \in (1 - 1) .. Len(l)
          /\ Len(l) \in (i - 1) .. Len(l)
      BY <1>0
    <3>2. QED
      BY <1>0, <3>1, ConcatAdjacentSubSeq
  <2>3. SubSeq(l, 1, Len(l)) = l
    BY <1>0, SubSeqFull
  <2>4. (i - 1) + 1 = i
    BY <1>0
  <2>5. QED
    BY <2>1, <2>2, <2>3, <2>4
<1>4. <<l[i]>> \in Seq(Entry) /\ <<l[i]>> \o b \in Seq(Entry)
  BY <1>0, <1>1, TotalOfOne, ConcatProperties
<1>5. /\ r \in Seq(Entry) /\ Len(r) = Len(l) - 1
      /\ \A j \in 1 .. Len(r) : r[j] = IF j < i THEN l[j] ELSE l[j + 1]
  <2> HIDE DEF a, b, r
  <2>1. /\ r \in Seq(Entry) /\ Len(r) = Len(a) + Len(b)
        /\ \A j \in 1 .. (Len(a) + Len(b)) : r[j] = IF j <= Len(a) THEN a[j] ELSE b[j - Len(a)]
    BY <1>1, <1>2, ConcatProperties
  <2>2. Len(r) = Len(l) - 1
    BY <1>0, <1>1, <2>1
  <2>3. ASSUME NEW j \in 1 .. Len(r) PROVE r[j] = IF j < i THEN l[j] ELSE l[j + 1]
    <3>1. CASE j < i
      BY <1>0, <1>1, <2>1, <2>2, <3>1
    <3>2. CASE ~(j < i)
      <4>1. ~(j <= Len(a)) /\ j - Len(a) = j - i + 1 /\ j - i + 1 \in 1 .. (Len(l) - i)
        BY <1>0, <1>1, <2>2, <3>2
      <4>2. b[j - i + 1] = l[i + (j - i + 1)] /\ i + (j - i + 1) = j + 1
        BY <1>0, <1>1, <4>1
      <4>3. QED
        BY <2>1, <3>2, <4>1, <4>2
    <3>3. QED
      BY <3>1, <3>2
  <2>4. QED
    BY <2>1, <2>2, <2>3
<1>6. Total(r) = Total(l) - l[i].size
  <2> HIDE DEF a, b, r
  <2>1. Total(r) = Total(a) + Total(b)
    BY <1>1, <1>2, TotalOfConcat
  <2>2. Total(l) = Total(a) + Total(<<l[i]>> \o b)
    BY <1>1, <1>3, <1>4, TotalOfConcat
  <2>3. Total(<<l[i]>> \o b) = l[i].size + Total(b)
    BY <1>0, <1>1, <1>4, TotalOfOne, TotalOfConcat
  <2>4. Total(a) \in Nat /\ Total(b) \in Nat /\ l[i].size \in Nat
    BY <1>0, <1>1, TotalType DEF Entry
  <2>5. QED
    BY <2>1, <2>2, <2>3, <2>4
<1> HIDE DEF a, b, r
<1> DEFINE At(j) == IF j < i THEN j ELSE j + 1
<1>7. ASSUME NEW j \in 1 .. Len(r)
      PROVE  At(j) \in 1 .. Len(l) /\ At(j) # i /\ r[j] = l[At(j)]
  BY <1>0, <1>5
<1>8. Distinct(r)
  <2> SUFFICES ASSUME NEW j \in 1 .. Len(r), NEW k \in 1 .. Len(r), r[j].url = r[k].url
               PROVE  j = k
    BY DEF Distinct
  <2>1. l[At(j)].url = l[At(k)].url /\ At(j) \in 1 .. Len(l) /\ At(k) \in 1 .. Len(l)
    BY <1>7
  <2>2. At(j) = At(k)
    BY <1>0, <2>1 DEF Distinct
  <2>3. Len(r) \in Nat
    BY <1>5
  <2>4. QED
    BY <1>0, <2>2, <2>3
<1>9. Urls(r) = Urls(l) \ {l[i].url}
  <2>1. ASSUME NEW j \in 1 .. Len(r) PROVE r[j].url \in Urls(l) /\ r[j].url # l[i].url
    <3>1. l[At(j)].url # l[i].url
      BY <1>0, <1>7 DEF Distinct
    <3>2. QED
      BY <1>7, <3>1 DEF Urls
  <2>2. ASSUME NEW k \in 1 .. Len(l), k # i PROVE \E j \in 1 .. Len(r) : r[j] = l[k]
    <3>1. CASE k < i
      BY <1>0, <1>5, <3>1
    <3>2. CASE k > i
      <4>1. k - 1 \in 1 .. Len(r) /\ ~(k - 1 < i) /\ (k - 1) + 1 = k
        BY <1>0, <1>5, <3>2
      <4>2. QED
        BY <1>5, <4>1
    <3>3. QED
      BY <1>0, <2>2, <3>1, <3>2
  <2>3. Urls(r) \subseteq Urls(l) \ {l[i].url}
    BY <2>1 DEF Urls
  <2>4. ASSUME NEW u \in Urls(l) \ {l[i].url} PROVE u \in Urls(r)
    <3>1. PICK k \in 1 .. Len(l) : u = l[k].url
      BY DEF Urls
    <3>2. PICK j \in 1 .. Len(r) : r[j] = l[k]
      BY <2>2, <3>1
    <3>3. QED
      BY <3>1, <3>2 DEF Urls
  <2>5. QED
    BY <2>3, <2>4
<1>10. QED
  BY <1>5, <1>6, <1>8, <1>9 DEF Sound, r

LEMMA InFront ==
  ASSUME NEW l, Sound(l), NEW e \in Entry, e.url \notin Urls(l)
  PROVE  LET r == <<e>> \o l IN
         /\ Sound(r) /\ Len(r) = Len(l) + 1 /\ Total(r) = e.size + Total(l)
         /\ Urls(r) = Urls(l) \cup {e.url}
<1> DEFINE r == <<e>> \o l
<1>0. l \in Seq(Entry) /\ Distinct(l) /\ Len(l) \in Nat /\ <<e>> \in Seq(Entry) /\ Len(<<e>>) = 1
  BY TotalOfOne DEF Sound
<1>1. /\ r \in Seq(Entry) /\ Len(r) = Len(l) + 1 /\ r[1] = e
      /\ \A j \in 2 .. Len(r) : r[j] = l[j - 1]
  <2>1. /\ r \in Seq(Entry) /\ Len(r) = 1 + Len(l)
        /\ \A j \in 1 .. (1 + Len(l)) : r[j] = IF j <= 1 THEN <<e>>[j] ELSE l[j - 1]
    BY <1>0, ConcatProperties
  <2> HIDE DEF r
  <2>2. QED
    BY <1>0, <2>1
<1>2. Total(r) = e.size + Total(l)
  BY <1>0, TotalOfOne, TotalOfConcat
<1> HIDE DEF r
<1>3. ASSUME NEW j \in 2 .. Len(r)
      PROVE  j - 1 \in 1 .. Len(l) /\ r[j] = l[j - 1]
  BY <1>0, <1>1
<1>4. ASSUME NEW j \in 2 .. Len(r) PROVE r[j].url # e.url /\ r[j].url \in Urls(l)
  BY <1>3 DEF Urls
<1>5. Distinct(r)
  <2> SUFFICES ASSUME NEW j \in 1 .. Len(r), NEW k \in 1 .. Len(r), r[j].url = r[k].url
               PROVE  j = k
    BY DEF Distinct
  <2>1. j \in Nat /\ k \in Nat /\ (j = 1 \/ j \in 2 .. Len(r)) /\ (k = 1 \/ k \in 2 .. Len(r))
    BY <1>0, <1>1
  <2>2. CASE j = 1 \/ k = 1
    BY <1>1, <1>4, <2>1, <2>2
  <2>3. CASE j \in 2 .. Len(r) /\ k \in 2 .. Len(r)
    <3>1. j - 1 = k - 1
      BY <1>0, <1>3, <2>3 DEF Distinct
    <3>2. QED
      BY <2>1, <3>1
  <2>4. QED
    BY <2>1, <2>2, <2>3
<1>6. Urls(r) = Urls(l) \cup {e.url}
  <2>1. ASSUME NEW k \in 1 .. Len(r) PROVE r[k].url \in Urls(l) \cup {e.url}
    <3>1. k = 1 \/ k \in 2 .. Len(r)
      BY <1>0, <1>1
    <3>2. QED
      BY <1>1, <1>4, <3>1
  <2>2. ASSUME NEW k \in 1 .. Len(l) PROVE l[k].url \in Urls(r)
    <3>1. k + 1 \in 1 .. Len(r) /\ k + 1 \in 2 .. Len(r) /\ (k + 1) - 1 = k
      BY <1>0, <1>1
    <3>2. QED
      BY <1>1, <3>1 DEF Urls
  <2>3. e.url \in Urls(r)
    BY <1>0, <1>1 DEF Urls
  <2>4. Urls(r) \subseteq Urls(l) \cup {e.url}
    BY <2>1 DEF Urls
  <2>5. Urls(l) \subseteq Urls(r)
    BY <2>2 DEF Urls
  <2>6. QED
    BY <2>3, <2>4, <2>5
<1>7. QED
  BY <1>1, <1>2, <1>5, <1>6 DEF Sound, r

LEMMA TheFirst ==
  ASSUME NEW l, Sound(l), NEW n \in 1 .. Len(l)
  PROVE  LET r == SubSeq(l, 1, n) IN
         /\ Sound(r) /\ Len(r) = n /\ Total(r) = Total(l) - Total(SubSeq(l, n + 1, Len(l)))
         /\ Urls(r) = {l[i].url : i \in 1 .. n}
<1> DEFINE r == SubSeq(l, 1, n)
           b == SubSeq(l, n + 1, Len(l))
<1>0. l \in Seq(Entry) /\ Distinct(l) /\ Len(l) \in Nat /\ \A j \in 1 .. Len(l) : l[j] \in Entry
  BY DEF Sound
<1>1. r \in Seq(Entry) /\ Len(r) = n /\ \A j \in 1 .. n : r[j] = l[j]
  BY <1>0, SubSeqProperties
<1>2. b \in Seq(Entry)
  BY <1>0, SubSeqProperties
<1>3. r \o b = l
  <2>1. SubSeq(l, 1, n) \o SubSeq(l, n + 1, Len(l)) = SubSeq(l, 1, Len(l))
    BY <1>0, ConcatAdjacentSubSeq
  <2>2. QED
    BY <1>0, <2>1, SubSeqFull
<1>4. Total(r) = Total(l) - Total(b)
  <2> HIDE DEF r, b
  <2>1. Total(l) = Total(r) + Total(b) /\ Total(r) \in Nat /\ Total(b) \in Nat
    BY <1>1, <1>2, <1>3, TotalOfConcat, TotalType
  <2>2. QED
    BY <2>1
<1> HIDE DEF r, b
<1>5. Distinct(r)
  BY <1>0, <1>1 DEF Distinct
<1>6. Urls(r) = {l[i].url : i \in 1 .. n}
  BY <1>1 DEF Urls
<1>7. QED
  BY <1>1, <1>4, <1>5, <1>6 DEF Sound, r, b
-----------------------------------------------------------------------------
(* What eviction keeps can be kept: there is a longest beginning that fits *)
(* or nothing but the first entry.                                         *)
LEMMA KeptFits ==
  ASSUME NEW l, Sound(l), NEW bytes, Len(l) >= 1
  PROVE  LET n == Kept(l, bytes) IN
         /\ n \in 1 .. Len(l)
         /\ \/ n = 1
            \/ n <= MaxEntries /\ bytes - Total(SubSeq(l, n + 1, Len(l))) <= MaxBytes
<1> DEFINE fits(n) == n <= MaxEntries /\ bytes - Total(SubSeq(l, n + 1, Len(l))) <= MaxBytes
           can == {n \in 1 .. Len(l) : n = 1 \/ fits(n)}
           short == {k \in 0 .. Len(l) : Len(l) - k \in can}
<1>0. Len(l) \in Nat
  BY DEF Sound
<1> HIDE DEF fits
<1>1. short \in SUBSET Nat /\ short # {}
  <2>1. 1 \in can /\ Len(l) - 1 \in 0 .. Len(l) /\ Len(l) - (Len(l) - 1) = 1
    BY <1>0
  <2>2. short \in SUBSET Nat
    BY <1>0
  <2> HIDE DEF can
  <2>3. Len(l) - 1 \in short
    BY <2>1
  <2>4. QED
    BY <2>2, <2>3
<1>2. PICK k \in short : \A m \in short : k <= m
  <2> HIDE DEF short
  <2>1. QED
    BY <1>1, LeastNumber
<1> DEFINE n == Len(l) - k
<1>3. n \in can /\ k \in 0 .. Len(l)
  OBVIOUS
<1>4. n \in 1 .. Len(l) /\ (n = 1 \/ fits(n))
  BY <1>3
<1>5. ASSUME NEW m \in (n + 1) .. Len(l) PROVE ~fits(m)
  <2>1. SUFFICES ASSUME fits(m) PROVE FALSE
    OBVIOUS
  <2>2. m \in 1 .. Len(l) /\ m > n /\ Len(l) - m \in 0 .. Len(l) /\ Len(l) - (Len(l) - m) = m
    BY <1>0, <1>3, <1>4
  <2>3. m \in can
    BY <2>1, <2>2
  <2>4. Len(l) - m \in short
    BY <2>2, <2>3
  <2>5. k <= Len(l) - m
    BY <1>2, <2>4
  <2>6. QED
    BY <1>0, <1>3, <2>2, <2>5
<1>6. \E i \in 1 .. Len(l) : /\ i = 1 \/ fits(i)
                             /\ \A m \in (i + 1) .. Len(l) : ~fits(m)
  <2> HIDE DEF n
  <2>1. QED
    BY <1>4, <1>5
<1>7. Kept(l, bytes) = CHOOSE i \in 1 .. Len(l) : /\ i = 1 \/ fits(i)
                                                  /\ \A m \in (i + 1) .. Len(l) : ~fits(m)
  BY Zenon DEF Kept, fits
<1>8. Kept(l, bytes) \in 1 .. Len(l) /\ (Kept(l, bytes) = 1 \/ fits(Kept(l, bytes)))
  BY <1>6, <1>7
<1>9. QED
  BY <1>8 DEF fits

(* The inductive invariant of the cache: lists are sequences of entries,   *)
(* and what the runs check.                                                *)
CacheInv ==
  /\ Sound(ll) /\ index = Urls(ll) /\ curBytes = Total(ll)
  /\ WithinCaps
  /\ now \in Nat

Fits(l) == Len(l) > 1 => Len(l) <= MaxEntries /\ Total(l) <= MaxBytes

LEMMA EvictedFits ==
  ASSUME NEW l, Sound(l), Len(l) >= 1, NEW bytes, bytes = Total(l), Evicted(l, bytes)
  PROVE  Sound(ll') /\ index' = Urls(ll') /\ curBytes' = Total(ll') /\ Fits(ll')
<1> DEFINE n == Kept(l, bytes)
           rest == SubSeq(l, n + 1, Len(l))
           r == SubSeq(l, 1, n)
<1>1. /\ n \in 1 .. Len(l)
      /\ n = 1 \/ (n <= MaxEntries /\ bytes - Total(rest) <= MaxBytes)
  BY KeptFits
<1>2. /\ ll' = r /\ index' = {l[i].url : i \in 1 .. n}
      /\ curBytes' = AtLeast0(bytes - Total(rest))
  BY DEF Evicted
<1> HIDE DEF n
<1>3. /\ Sound(r) /\ Len(r) = n /\ Total(r) = Total(l) - Total(rest)
      /\ Urls(r) = {l[i].url : i \in 1 .. n}
  BY <1>1, TheFirst
<1> HIDE DEF r, rest
<1>4. Total(r) \in Nat
  BY <1>3, TotalType DEF Sound
<1>5. AtLeast0(Total(r)) = Total(r)
  BY <1>4 DEF AtLeast0
<1>6. QED
  BY <1>1, <1>2, <1>3, <1>5 DEF Fits
-----------------------------------------------------------------------------
(* The operations of the cache *)

LEMMA NodeOf ==
  ASSUME CacheInv, NEW u \in index
  PROVE  /\ Node(u) \in 1 .. Len(ll) /\ ll[Node(u)].url = u /\ ll[Node(u)] \in Entry
         /\ Len(ll) \in Nat /\ Len(ll) >= 1
<1>1. ll \in Seq(Entry) /\ DOMAIN ll = 1 .. Len(ll) /\ Len(ll) \in Nat
  BY DEF CacheInv, Sound
<1>2. \E i \in DOMAIN ll : ll[i].url = u
  BY <1>1 DEF CacheInv, Urls
<1>3. Node(u) \in DOMAIN ll /\ ll[Node(u)].url = u
  BY <1>2 DEF Node
<1>4. QED
  BY <1>1, <1>3

LEMMA RemovedKeeps ==
  ASSUME CacheInv, NEW u \in index, Removed(u), UNCHANGED now
  PROVE  CacheInv'
<1> DEFINE i == Node(u)
           r == RemoveAt(ll, i)
<1>1. i \in 1 .. Len(ll) /\ ll[i].url = u /\ ll[i] \in Entry /\ Len(ll) \in Nat
  BY NodeOf
<1>2. ll' = r /\ index' = index \ {u} /\ curBytes' = AtLeast0(curBytes - ll[i].size)
  BY DEF Removed
<1>3. Sound(ll) /\ index = Urls(ll) /\ curBytes = Total(ll) /\ WithinCaps /\ now \in Nat
  BY DEF CacheInv
<1> HIDE DEF i
<1>4. Sound(r) /\ Len(r) = Len(ll) - 1 /\ Total(r) = Total(ll) - ll[i].size
      /\ Urls(r) = Urls(ll) \ {u}
  BY <1>1, <1>3, Without
<1> HIDE DEF r
<1>5. Total(r) \in Nat /\ Total(ll) \in Nat /\ ll[i].size \in Nat
  BY <1>1, <1>3, <1>4, TotalType DEF Sound, Entry
<1>6. curBytes' = Total(ll')
  BY <1>2, <1>3, <1>4, <1>5 DEF AtLeast0
<1>7. WithinCaps'
  <2>1. Len(r) > 1 => Len(r) <= MaxEntries /\ Total(r) <= MaxBytes
    BY <1>1, <1>3, <1>4, <1>5, FetcherAssumption DEF WithinCaps
  <2>2. QED
    BY <1>2, <2>1 DEF WithinCaps
<1>8. QED
  BY <1>2, <1>3, <1>4, <1>6, <1>7 DEF CacheInv

LEMMA GetKeeps ==
  ASSUME CacheInv, NEW u \in Url, GetFromCache(u), UNCHANGED now
  PROVE  CacheInv'
<1>1. CASE Hit(u) /\ ll' = <<ll[Node(u)]>> \o RemoveAt(ll, Node(u)) /\ UNCHANGED <<index, curBytes>>
  <2> DEFINE i == Node(u)
             r == RemoveAt(ll, i)
  <2>1. /\ u \in index /\ i \in 1 .. Len(ll) /\ ll[i].url = u /\ ll[i] \in Entry
        /\ Len(ll) \in Nat
    BY <1>1, NodeOf DEF Hit
  <2>2. Sound(ll) /\ index = Urls(ll) /\ curBytes = Total(ll) /\ WithinCaps /\ now \in Nat
    BY DEF CacheInv
  <2>3. ll' = <<ll[i]>> \o r /\ UNCHANGED <<index, curBytes>>
    BY <1>1
  <2> HIDE DEF i
  <2>4. Sound(r) /\ Len(r) = Len(ll) - 1 /\ Total(r) = Total(ll) - ll[i].size
        /\ Urls(r) = Urls(ll) \ {u}
    BY <2>1, <2>2, Without
  <2> HIDE DEF r
  <2>5. /\ Sound(ll') /\ Len(ll') = Len(r) + 1 /\ Total(ll') = ll[i].size + Total(r)
        /\ Urls(ll') = Urls(r) \cup {u}
    BY <2>1, <2>3, <2>4, InFront
  <2>6. Total(r) \in Nat /\ Total(ll) \in Nat /\ ll[i].size \in Nat
    BY <2>1, <2>2, <2>4, TotalType DEF Sound, Entry
  <2>7. Total(ll') = Total(ll) /\ Len(ll') = Len(ll) /\ Urls(ll') = Urls(ll)
    BY <2>1, <2>2, <2>4, <2>5, <2>6
  <2>8. QED
    BY <2>2, <2>3, <2>5, <2>7 DEF CacheInv, WithinCaps
<1>2. CASE u \in index /\ Removed(u)
  BY <1>2, RemovedKeeps
<1>3. CASE UNCHANGED cache
  BY <1>3 DEF CacheInv, cache, WithinCaps
<1>4. QED
  BY <1>1, <1>2, <1>3 DEF GetFromCache

LEMMA PutKeeps ==
  ASSUME CacheInv, NEW u \in Url, NEW size \in Nat, PutCache(u, size), UNCHANGED now
  PROVE  CacheInv'
<1> DEFINE new == [url |-> u, parsedAt |-> now, size |-> size]
           i == Node(u)
           r == IF u \in index THEN RemoveAt(ll, i) ELSE ll
           bytes == IF u \in index THEN curBytes + size - ll[i].size ELSE curBytes + size
           l == <<new>> \o r
<1>1. new \in Entry /\ new.url = u /\ new.size = size
  BY DEF CacheInv, Entry
<1>2. Sound(ll) /\ index = Urls(ll) /\ curBytes = Total(ll) /\ now \in Nat
  BY DEF CacheInv
<1>3. Evicted(l, bytes)
  BY DEF PutCache
<1>4. Sound(r) /\ u \notin Urls(r) /\ bytes = size + Total(r)
  <2>1. CASE u \in index
    <3>1. i \in 1 .. Len(ll) /\ ll[i].url = u /\ ll[i] \in Entry
      BY <2>1, NodeOf
    <3>2. r = RemoveAt(ll, i) /\ bytes = curBytes + size - ll[i].size
      BY <2>1
    <3> HIDE DEF r, bytes, i
    <3>3. Sound(r) /\ Total(r) = Total(ll) - ll[i].size /\ Urls(r) = Urls(ll) \ {u}
      BY <1>2, <3>1, <3>2, Without
    <3>4. Total(ll) \in Nat /\ ll[i].size \in Nat
      BY <1>2, <3>1, TotalType DEF Sound, Entry
    <3>5. QED
      BY <1>2, <3>2, <3>3, <3>4
  <2>2. CASE u \notin index
    <3>1. r = ll /\ bytes = curBytes + size
      BY <2>2
    <3> HIDE DEF r, bytes
    <3>2. Total(ll) \in Nat
      BY <1>2, TotalType DEF Sound
    <3>3. QED
      BY <1>2, <2>2, <3>1, <3>2
  <2>3. QED
    BY <2>1, <2>2
<1> HIDE DEF r, bytes, new
<1>5. Sound(l) /\ Len(l) = Len(r) + 1 /\ Total(l) = size + Total(r)
  BY <1>1, <1>4, InFront
<1>6. Len(l) >= 1
  BY <1>4, <1>5 DEF Sound
<1> HIDE DEF l
<1>7. Sound(ll') /\ index' = Urls(ll') /\ curBytes' = Total(ll') /\ Fits(ll')
  BY <1>3, <1>4, <1>5, <1>6, EvictedFits
<1>8. QED
  BY <1>2, <1>7 DEF CacheInv, Fits, WithinCaps
-----------------------------------------------------------------------------
LEMMA CacheStep ==
  ASSUME FlightInv, CacheInv, [FetcherNext]_fetchVars
  PROVE  CacheInv'
<1>1. ASSUME UNCHANGED cache, now' \in Nat PROVE CacheInv'
  BY <1>1 DEF CacheInv, cache, WithinCaps
<1>2. now \in Nat /\ call \in [Caller -> Call]
  BY DEF CacheInv, FlightInv, FlightsTyped
<1>3. ASSUME NEW c \in Caller, LookUp(c) PROVE CacheInv'
  <2>1. call[c].url \in Url
    BY <1>3 DEF LookUp, FlightInv, FlightsTyped
  <2>2. QED
    BY <1>3, <2>1, GetKeeps DEF LookUp
<1>4. ASSUME NEW c \in Caller, Put(c) PROVE CacheInv'
  <2>1. call[c].url \in Url
    BY <1>4 DEF Put, FlightInv, FlightsTyped
  <2>2. call[c].size \in Nat
    BY <1>2 DEF Call
  <2>3. QED
    BY <1>4, <2>1, <2>2, PutKeeps DEF Put
<1>5. ASSUME NEW u \in Url, Invalidate(u) PROVE CacheInv'
  BY <1>1, <1>2, <1>5, RemovedKeeps DEF Invalidate
<1>6. CASE Advance
  BY <1>1, <1>2, <1>6 DEF Advance
<1>7. CASE UNCHANGED fetchVars
  BY <1>1, <1>2, <1>7 DEF fetchVars, cache
<1>8. ASSUME NEW c \in Caller, (\E u \in Url : Fetch(c, u)) \/ Acquire(c) \/ Proceed(c)
      PROVE  CacheInv'
  <2>1. \/ LookUp(c) \/ Put(c) \/ UNCHANGED <<cache, now>>
    BY <1>8 DEF Fetch, Acquire, Proceed, Join, Downloaded, DownloadFailed, Unregister, Close
  <2>2. QED
    BY <1>1, <1>2, <1>3, <1>4, <2>1
<1>9. QED
  BY <1>5, <1>6, <1>7, <1>8 DEF FetcherNext

LEMMA CacheKept == FetcherSpec => []CacheInv
<1>1. FetcherInit => FlightInv /\ CacheInv
  <2> SUFFICES ASSUME FetcherInit PROVE FlightInv /\ CacheInv
    OBVIOUS
  <2>1. FlightInv
    BY FetcherAssumption
       DEF FetcherInit, FlightInv, FlightsTyped, LeadersRegister, NoLostWakeup,
           WaitsOn, Leading, NoCall, Call
  <2>2. ll = <<>> /\ index = {} /\ curBytes = 0 /\ now = 0
    BY DEF FetcherInit
  <2>3. Sound(ll) /\ Len(ll) = 0 /\ Urls(ll) = {}
    BY <2>2 DEF Sound, Distinct, Urls
  <2>4. Total(ll) = 0
    BY <2>3, SumsStep DEF Total, Sound
  <2>5. QED
    BY <2>1, <2>2, <2>3, <2>4 DEF CacheInv, WithinCaps
<1>2. FlightInv /\ CacheInv /\ [FetcherNext]_fetchVars => FlightInv' /\ CacheInv'
  BY FlightStep, CacheStep
<1>3. QED
  BY <1>1, <1>2, PTL DEF FetcherSpec

(* Lookups, insertions, evictions, expiries and invalidations keep list,   *)
(* map and counter of the cache in agreement, for any urls and sizes.      *)
THEOREM CacheKeptConsistent == FetcherSpec => []CacheConsistent
<1>1. CacheInv => CacheConsistent
  <2> SUFFICES ASSUME CacheInv PROVE CacheConsistent
    OBVIOUS
  <2>1. DOMAIN ll = 1 .. Len(ll)
    BY DEF CacheInv, Sound
  <2>2. QED
    BY <2>1 DEF CacheInv, Sound, Distinct, Urls, CacheConsistent
<1>2. QED
  BY <1>1, CacheKept, PTL

(* Whenever the lock is free, the cache is within its caps for any caps,   *)
(* but for one entry that is too large by itself.                          *)
THEOREM CapsKept == FetcherSpec => []WithinCaps
<1>1. CacheInv => WithinCaps
  BY DEF CacheInv
<1>2. QED
  BY <1>1, CacheKept, PTL
=============================================================================
