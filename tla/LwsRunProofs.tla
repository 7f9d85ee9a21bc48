----------------------------- MODULE LwsRunProofs -----------------------------
(***************************************************************************)
(* Proofs about LwsRun: for every set of requests and every configuration, *)
(* a Lua state keeps nothing of a request when it serves the next one, its *)
(* chunks run in the order of lws_run, the answer is what they asked for,  *)
(* and the status of a file that the handler goes by is a fresh one.       *)
(***************************************************************************)
EXTENDS LwsRun, FiniteSetTheorems, TLAPS

(* The chunks that may have an environment: those that the end of lws_run  *)
(* will clear.  The main chunk is one of them as soon as it is next.       *)
Coming == IF run.complete \/ run.next \in {"init", "pre"} THEN {}
          ELSE {ctx[run.request].main}

Cleanable == {PreFile, PostFile} \cup Coming

(* One request at a time holds the Lua state.                              *)
OneHolder == \A r, s \in Holders : r = s

(* A request that was let in has a main file.                              *)
MainIsFile == \A r \in Requests : ctx[r].stage \in {"ready", "running"} => ctx[r].main \in MainFiles

(* While lws_run is at work its request holds the state, and what it has   *)
(* set so far is its own and will be cleared, if it gets there.            *)
Held ==
    /\ L.open /\ L.current = run.request
    /\ run.next # "init" => L.init
    /\ run.chunk # None => run.chunk = run.next
    /\ run.complete => run.next \in {"pre", "post", "end"}
    /\ \A f \in Files : L.chunks[f].env # None =>
          f \in Cleanable /\ L.chunks[f].env = run.request

RunOK ==
    /\ \A r \in Requests : ctx[r].stage = "running" => run.request = r
    /\ run.request = None => run = NoRun
    /\ run.request # None => ctx[run.request].stage = "running" /\ Held

(* After lws_run the state is clean, or marked for close.                  *)
Clean == L.current = None /\ L.init /\ \A f \in Files : L.chunks[f].env = None

DoneOK == \A r \in Requests : ctx[r].stage = "done" =>
             /\ L.current \in {None, r}
             /\ \A f \in Files : L.chunks[f].env \in {None, r}
             /\ ctx[r].rc = -1 => L.close
             /\ ctx[r].rc # -1 => Clean

(* Nobody holds it: it is clean and not marked, or there is none.          *)
FreeOK == Holders = {} => L = NewState \/ (Clean /\ ~L.close)

RInv == TypeOK /\ OneHolder /\ MainIsFile /\ RunOK /\ DoneOK /\ FreeOK

-------------------------------------------------------------------------------
(* Types.                                                                  *)

LEMMA SetupFacts ==
    ASSUME setup \in Setups
    PROVE  /\ IsFiniteSet(MainFiles) /\ None \notin MainFiles
           /\ Cap \in Nat /\ Timeout \in Nat
           /\ setup.hops \in Nat /\ setup.time \in Nat
           /\ setup.comes \subseteq MainFiles
           /\ MainFiles \subseteq Files
           /\ None \notin Requests /\ None \notin Chunks
  BY RunAssumption DEF Setup, MainFiles, Cap, Timeout, Files

(* lws_get_file_status keeps the cache within its cap.                     *)
LEMMA CacheOK ==
    ASSUME TypeOK, NEW f \in MainFiles, GetFileStatus(f), UNCHANGED setup
    PROVE  /\ \A g \in Cached' : cache'[g] \in [found : BOOLEAN, time : 0 .. setup.time]
           /\ Cardinality(Cached') <= Cap
<1>1. CASE UNCHANGED cache
  BY <1>1 DEF TypeOK, Cached, MainFiles, Cap
<1>2. CASE Cap > 0 /\ Remember(f)
  <2>1. PICK evicted \in IF f \in Cached \/ Cardinality(Cached) < Cap THEN {None} ELSE Cached :
            cache' = [g \in MainFiles |->
                        CASE g = f       -> [found |-> f \in found, time |-> now]
                          [] g = evicted -> None
                          [] OTHER       -> cache[g]]
    BY <1>2 DEF Remember
  <2>2. /\ IsFiniteSet(Cached) /\ Cardinality(Cached) \in Nat
        /\ Cardinality(Cached) <= Cap /\ Cap \in Nat
    BY SetupFacts, FS_Subset, FS_CardinalityType DEF TypeOK, Cached
  <2>3. Cached' \subseteq (Cached \ {evicted}) \cup {f}
    BY <2>1 DEF Cached, MainFiles
  <2>4. \A g \in Cached' : cache'[g] \in [found : BOOLEAN, time : 0 .. setup.time]
    BY <2>1, <2>3 DEF TypeOK, Cached, MainFiles
  <2> DEFINE kept == Cached \ {evicted}
  <2>5. /\ IsFiniteSet(kept) /\ Cardinality(kept) \in Nat
        /\ Cardinality(kept) <= Cap
        /\ f \notin kept => Cardinality(kept) < Cap
    <3>1. CASE evicted = None
      <4>1. kept = Cached
        BY <3>1, SetupFacts DEF TypeOK, Cached
      <4>2. f \in Cached \/ Cardinality(Cached) < Cap
        BY <2>1, <3>1, SetupFacts DEF TypeOK, Cached
      <4> QED BY <2>2, <4>1, <4>2
    <3>2. CASE evicted \in Cached /\ f \notin Cached
      <4>1. IsFiniteSet(kept) /\ Cardinality(kept) = Cardinality(Cached) - 1
        BY <2>2, <3>2, FS_RemoveElement
      <4>2. Cardinality(kept) \in Nat
        BY <4>1, FS_CardinalityType
      <4> QED BY <2>2, <4>1, <4>2
    <3> QED BY <2>1, <3>1, <3>2
  <2> HIDE DEF kept
  <2>6. /\ IsFiniteSet(kept \cup {f})
        /\ Cardinality(kept \cup {f}) <= Cap
    <3>1. /\ IsFiniteSet(kept \cup {f})
          /\ Cardinality(kept \cup {f}) = IF f \in kept THEN Cardinality(kept)
                                          ELSE Cardinality(kept) + 1
      BY <2>5, FS_AddElement
    <3> QED BY <2>2, <2>5, <3>1
  <2>7. Cardinality(Cached') <= Cardinality(kept \cup {f})
    BY <2>3, <2>6, FS_Subset DEF kept
  <2>8. IsFiniteSet(Cached')
    BY <2>3, <2>6, FS_Subset DEF kept
  <2>9. Cardinality(Cached') \in Nat /\ Cardinality(kept \cup {f}) \in Nat
    BY <2>6, <2>8, FS_CardinalityType
  <2> QED BY <2>2, <2>4, <2>6, <2>7, <2>9
<1>3. CASE Forget(f)
  <2>1. PICK evicted \in Cached :
            cache' = [g \in MainFiles |-> IF g = evicted THEN None ELSE cache[g]]
    BY <1>3 DEF Forget
  <2>2. IsFiniteSet(Cached) /\ Cap \in Nat
    BY SetupFacts, FS_Subset DEF TypeOK, Cached
  <2>3. Cached' \subseteq Cached /\ \A g \in Cached' : cache'[g] = cache[g]
    BY <2>1 DEF Cached, MainFiles
  <2>4. IsFiniteSet(Cached') /\ Cardinality(Cached') <= Cardinality(Cached)
    BY <2>2, <2>3, FS_Subset
  <2>5. Cardinality(Cached') \in Nat /\ Cardinality(Cached) \in Nat
    BY <2>2, <2>4, FS_CardinalityType, SMTT(40)
  <2> QED BY <2>2, <2>3, <2>4, <2>5 DEF TypeOK, Cap
<1> QED BY <1>1, <1>2, <1>3 DEF GetFileStatus

(* The types but those of the files and the cache.                         *)
ChunkType == [cached : BOOLEAN, env : Someone]

StateType == [open : BOOLEAN, close : BOOLEAN, init : BOOLEAN, current : Someone,
              chunks : [Files -> ChunkType]]

RunType == [request : Someone, next : Chunks \cup {"end"}, chunk : Chunks \cup {None},
            complete : BOOLEAN, result : Results]

RequestTypes ==
    /\ ctx \in [Requests -> Context]
    /\ hops \in [Requests -> 0 .. setup.hops]
    /\ unread \subseteq Requests
    /\ L \in StateType
    /\ run \in RunType

FileTypes ==
    /\ setup \in Setups
    /\ now \in 0 .. setup.time
    /\ found \subseteq MainFiles
    /\ seen \in [MainFiles -> [there : Int, missing : Int]]
    /\ \A f \in Cached : cache[f] \in [found : BOOLEAN, time : 0 .. setup.time]
    /\ Cardinality(Cached) <= Cap

LEMMA FileTypesNext == TypeOK /\ [Next]_vars => FileTypes'
<1> SUFFICES ASSUME TypeOK, [Next]_vars
             PROVE  FileTypes'
  OBVIOUS
<1>1. setup' = setup
  BY DEF Next, vars, Request, Handler, Start, Redirect, ReadBody, Finalization, Chunk, Skip, Call,
         LoadFails, Errs, Ends, Finish, SetComplete, SetClose, CloseIdle, ComeOrGo, Tick,
         AllAnswered
<1>2. ASSUME UNCHANGED <<setup, fileVars, cache>>
      PROVE  FileTypes'
  BY <1>2 DEF fileVars, TypeOK, FileTypes, Cached, MainFiles, Cap
<1>3. ASSUME NEW r \in Requests, Handler(r)
      PROVE  FileTypes'
  <2>1. PICK f \in MainFiles : GetFileStatus(f)
    BY <1>3 DEF Handler
  <2>2. UNCHANGED <<setup, fileVars>>
    BY <1>3 DEF Handler
  <2> QED BY <2>1, <2>2, CacheOK DEF fileVars, TypeOK, FileTypes, MainFiles, Cap
<1>4. CASE Tick
  BY <1>4, SetupFacts DEF Tick, Seen, TypeOK, FileTypes, Cached, MainFiles, Cap
<1>5. ASSUME NEW f \in MainFiles, ComeOrGo(f)
      PROVE  FileTypes'
  BY <1>5, SetupFacts DEF ComeOrGo, Seen, TypeOK, FileTypes, Cached, MainFiles, Cap
<1> QED
  BY <1>2, <1>3, <1>4, <1>5, ZenonT(60)
  DEF Next, vars, Request, Start, Redirect, ReadBody, Finalization, Chunk, Skip, Call,
      LoadFails, Errs, Ends, Finish, SetComplete, SetClose, CloseIdle, AllAnswered

-------------------------------------------------------------------------------
(* Each action keeps the rest of the invariant, Kept.                      *)
Kept == RequestTypes /\ OneHolder /\ MainIsFile /\ RunOK /\ DoneOK /\ FreeOK

LEMMA SameSetup ==
    ASSUME setup' = setup
    PROVE  /\ Files' = Files /\ MainFiles' = MainFiles
           /\ InitFile' = InitFile /\ PreFile' = PreFile /\ PostFile' = PostFile
           /\ Context' = Context /\ StateType' = StateType /\ RunType' = RunType
  BY DEF Files, MainFiles, InitFile, PreFile, PostFile, Context, StateType, RunType, ChunkType,
     Someone

LEMMA StutterOK ==
    ASSUME Kept, UNCHANGED <<setup, requestVars, L, run>>
    PROVE  Kept'
<1>1. RequestTypes'
  BY SameSetup DEF Kept, requestVars, RequestTypes, Someone
<1>2. OneHolder' /\ MainIsFile'
  BY SameSetup DEF Kept, requestVars, OneHolder, Holders, MainIsFile
<1>3. RunOK'
  BY SameSetup DEF Kept, requestVars, RunOK, Held, Cleanable, Coming, NoRun
<1>4. DoneOK' /\ FreeOK'
  BY SameSetup DEF Kept, requestVars, DoneOK, FreeOK, Holders, Clean, NewState
<1> QED BY <1>1, <1>2, <1>3, <1>4 DEF Kept

LEMMA NewContextOK == NewContext \in Context /\ NewContext.stage = "new"
  BY DEF NewContext, Context, Stages, Readings, Statuses, Results

LEMMA AnsweredOK ==
    ASSUME NEW c \in Context, NEW status \in Statuses
    PROVE  LET a == Answered(c, status) IN
           a \in Context /\ a.stage = "over" /\ a.main = c.main
<1>1. "over" \in Stages /\ c.main \in MainFiles \cup {None}
  BY DEF Stages, Context
<1> QED BY <1>1, NewContextOK DEF Answered, Context

(* The handler touches no state and no run.                                *)
LEMMA HandlerOK ==
    ASSUME TypeOK, Kept, NEW r \in Requests, Handler(r)
    PROVE  Kept'
<1>1. /\ UNCHANGED <<setup, hops, unread, L, run>>
      /\ ctx[r].stage = "new"
      /\ None \notin Requests
  BY SetupFacts DEF Handler, stateVars, TypeOK
<1>2. PICK f \in MainFiles :
          \E c \in Context : /\ ctx' = [ctx EXCEPT ![r] = c]
                            /\ c.stage \in {"over", "ready"}
                            /\ c.main = f
  <2>1. PICK f \in MainFiles :
          \/ ctx' = [ctx EXCEPT ![r] = Answered(Chosen(r, f), 404)]
          \/ ctx' = [ctx EXCEPT ![r] = Answered(Chosen(r, f), 500)]
          \/ ctx' = [ctx EXCEPT ![r] = LetIn(Chosen(r, f))]
    BY DEF Handler
  <2> DEFINE c == Chosen(r, f)
  <2>2. c \in Context /\ c.main = f
    BY DEF Kept, RequestTypes, Context, Chosen
  <2> HIDE DEF c
  <2>3. LetIn(c) \in Context /\ LetIn(c).stage = "ready" /\ LetIn(c).main = f
    BY <2>2 DEF Context, Stages, LetIn
  <2>4. \A status \in Statuses : LET a == Answered(c, status) IN
           a \in Context /\ a.stage = "over" /\ a.main = f
    BY <2>2, AnsweredOK
  <2>5. 404 \in Statuses /\ 500 \in Statuses
    BY DEF Statuses
  <2> QED BY <2>1, <2>3, <2>4, <2>5 DEF c
<1>3. /\ ctx' \in [Requests -> Context]
      /\ \A s \in Requests \ {r} : ctx'[s] = ctx[s]
      /\ ctx'[r].stage \in {"over", "ready"} /\ ctx'[r].main = f
  BY <1>2 DEF Kept, RequestTypes
<1>4. Holders' = Holders /\ r \notin Holders
  BY <1>1, <1>3 DEF Holders, Kept, RequestTypes
<1>5. RequestTypes'
  BY <1>1, <1>3, SameSetup DEF Kept, RequestTypes, Someone
<1>6. OneHolder' /\ MainIsFile'
  BY <1>1, <1>3, <1>4, SameSetup DEF Kept, OneHolder, MainIsFile
<1>7. RunOK'
  <2>1. CASE run.request = None
    BY <1>1, <1>3, <2>1 DEF Kept, RunOK
  <2>2. CASE run.request # None
    <3>1. run.request \in Requests \ {r}
      BY <1>1, <2>2 DEF Kept, RequestTypes, RunType, RunOK, Someone
    <3>2. Held'
      BY <1>1, <1>3, <2>2, <3>1, SameSetup DEF Kept, RunOK, Held, Cleanable, Coming
    <3> QED BY <1>1, <1>3, <3>1, <3>2 DEF Kept, RunOK
  <2> QED BY <2>1, <2>2
<1>8. DoneOK' /\ FreeOK'
  BY <1>1, <1>3, <1>4, SameSetup DEF Kept, DoneOK, FreeOK, Clean, NewState
<1> QED BY <1>5, <1>6, <1>7, <1>8 DEF Kept

(* The end of lws_run by an error leaves a state that is marked for close. *)
LEMMA FailOK ==
    ASSUME TypeOK, Kept, NEW r \in Requests, Holders \subseteq {r},
           NEW l \in StateType, l.open, l.current \in {None, r},
           \A f \in Files : l.chunks[f].env \in {None, r},
           Fail(l, r), UNCHANGED <<setup, hops, unread>>
    PROVE  Kept'
<1>1. /\ L' = [l EXCEPT !.close = TRUE]
      /\ run' = NoRun
      /\ ctx' = [ctx EXCEPT ![r] = [@ EXCEPT !.stage = "done", !.rc = -1]]
  BY DEF Fail, Kept, RequestTypes, Context
<1> DEFINE c == [ctx[r] EXCEPT !.stage = "done", !.rc = -1]
<1>2. c \in Context /\ c.stage = "done" /\ c.rc = -1
  BY ZenonT(60) DEF Kept, RequestTypes, Context, Stages
<1> HIDE DEF c
<1>3. /\ ctx' \in [Requests -> Context]
      /\ \A s \in Requests \ {r} : ctx'[s] = ctx[s] /\ s \notin Holders
      /\ ctx'[r] = c
  BY <1>1, <1>2 DEF Kept, RequestTypes, c
<1>4. /\ L' \in StateType /\ L'.close /\ L'.open /\ L'.current = l.current
      /\ L'.chunks = l.chunks
  BY <1>1 DEF StateType
<1>5. run' \in RunType /\ run'.request = None
  BY <1>1 DEF RunType, NoRun, Someone, Chunks, Results
<1>6. RequestTypes'
  BY <1>3, <1>4, <1>5, SameSetup DEF Kept, RequestTypes
<1>7. Holders' = {r} /\ OneHolder' /\ MainIsFile'
  BY <1>2, <1>3, SameSetup DEF Holders, OneHolder, MainIsFile, Kept
<1>8. RunOK'
  BY <1>1, <1>2, <1>3, <1>5 DEF RunOK, Holders
<1>9. DoneOK' /\ FreeOK'
  BY <1>2, <1>3, <1>4, <1>7, SameSetup DEF DoneOK, FreeOK, Holders
<1> QED BY <1>6, <1>7, <1>8, <1>9 DEF Kept

(* While lws_run goes on it is enough to look at the state and the run.    *)
LEMMA GoesOn ==
    ASSUME Kept, run.request # None, run'.request = run.request,
           RequestTypes', setup' = setup,
           \A r \in Requests : ctx'[r].stage = ctx[r].stage /\ ctx'[r].main = ctx[r].main,
           Held'
    PROVE  Kept'
<1>1. run.request \in Requests /\ ctx[run.request].stage = "running"
  BY DEF Kept, RequestTypes, RunType, RunOK, Someone
<1>2. Holders = {run.request} /\ Holders' = Holders
  BY <1>1 DEF Kept, OneHolder, Holders
<1>3. OneHolder' /\ MainIsFile'
  BY <1>2, SameSetup DEF Kept, OneHolder, MainIsFile
<1>4. RunOK'
  BY <1>1 DEF Kept, RunOK
<1>5. DoneOK' /\ FreeOK'
  BY <1>1, <1>2 DEF DoneOK, FreeOK, Holders
<1> QED BY <1>3, <1>4, <1>5 DEF Kept

LEMMA RunFacts ==
    ASSUME TypeOK, Kept, run.request # None
    PROVE  /\ run.request \in Requests /\ Holders = {run.request} /\ Held
           /\ L \in StateType /\ run \in RunType /\ ctx \in [Requests -> Context]
           /\ ctx[run.request].main \in MainFiles
           /\ \A f \in Files : L.chunks[f].env \in {None, run.request}
  BY DEF Kept, RequestTypes, RunType, Someone, RunOK, Held, OneHolder, Holders, MainIsFile

LEMMA StartOK ==
    ASSUME TypeOK, Kept, NEW r \in Requests, Start(r)
    PROVE  Kept'
<1> DEFINE l == [L EXCEPT !.open = TRUE, !.current = r]
<1>1. Holders = {} /\ ctx[r].stage = "ready" /\ UNCHANGED <<setup, hops, unread>>
  BY DEF Start, IsFree, Holders
<1>2. /\ l \in StateType /\ l.open /\ l.current = r
      /\ l.init = L.init /\ l.chunks = L.chunks
  BY DEF Kept, RequestTypes, StateType, Someone
<1>3. \A f \in Files : l.chunks[f].env = None
  BY <1>1, <1>2 DEF Kept, FreeOK, Clean, NewState
<1>4. ASSUME L' = l,
             run' = [NoRun EXCEPT !.request = r, !.next = IF L.init THEN "pre" ELSE "init"],
             ctx' = [ctx EXCEPT ![r].stage = "running"]
      PROVE  Kept'
  <2>1. /\ run' \in RunType /\ run'.request = r /\ run'.chunk = None /\ ~run'.complete
        /\ run'.next = IF L.init THEN "pre" ELSE "init"
    <3>1. NoRun \in RunType /\ NoRun.chunk = None /\ ~NoRun.complete
      BY DEF RunType, NoRun, Someone, Results
    <3>2. (IF L.init THEN "pre" ELSE "init") \in Chunks \cup {"end"} /\ r \in Someone
      BY DEF Chunks, Someone
    <3> QED BY <1>4, <3>1, <3>2 DEF RunType
  <2>2. /\ ctx' \in [Requests -> Context]
        /\ \A s \in Requests \ {r} : ctx'[s] = ctx[s]
        /\ ctx'[r].stage = "running" /\ ctx'[r].main = ctx[r].main
    BY <1>4 DEF Kept, RequestTypes, Context, Stages
  <2>3. RequestTypes'
    BY <1>1, <1>2, <1>4, <2>1, <2>2, SameSetup DEF Kept, RequestTypes
  <2>4. Holders' = {r} /\ OneHolder' /\ MainIsFile'
    BY <1>1, <2>2, SameSetup DEF Holders, OneHolder, MainIsFile, Kept
  <2>5. Held'
    BY <1>1, <1>2, <1>3, <1>4, <2>1, SameSetup DEF Held
  <2>6. RunOK'
    BY <1>1, <2>1, <2>2, <2>5, SetupFacts DEF RunOK, Holders, TypeOK
  <2>7. DoneOK' /\ FreeOK'
    BY <1>1, <2>2, <2>4 DEF DoneOK, FreeOK, Holders
  <2> QED BY <2>3, <2>4, <2>6, <2>7 DEF Kept
<1>5. ASSUME Fail(l, r)
      PROVE  Kept'
  BY <1>1, <1>2, <1>3, <1>5, FailOK
<1> QED BY <1>4, <1>5 DEF Start

LEMMA SkipOK ==
    ASSUME TypeOK, Kept, NEW c \in Chunks, Skip(c)
    PROVE  Kept'
<1>1. /\ run.request # None /\ run.chunk = None /\ run.next = c
      /\ UNCHANGED <<setup, requestVars>>
  BY DEF Skip, ComesTo
<1>2. /\ L' \in StateType /\ L'.init = InitDone(c)
      /\ L'.open = L.open /\ L'.current = L.current /\ L'.chunks = L.chunks
  BY <1>1, RunFacts DEF Skip, StateType, InitDone
<1>3. /\ run' \in RunType /\ run'.next = After(c, run.complete)
      /\ run'.chunk = run.chunk /\ run'.complete = run.complete /\ run'.request = run.request
  BY <1>1, RunFacts DEF Skip, RunType, After, Chunks
<1>4. RequestTypes'
  BY <1>1, <1>2, <1>3, SameSetup DEF Kept, requestVars, RequestTypes
<1>5. Held'
  BY <1>1, <1>2, <1>3, RunFacts, SameSetup
  DEF Held, InitDone, After, Chunks, Cleanable, Coming, requestVars
<1> QED BY <1>1, <1>3, <1>4, <1>5, GoesOn DEF requestVars

LEMMA CallOK ==
    ASSUME TypeOK, Kept, NEW c \in Chunks, Call(c)
    PROVE  Kept'
<1> DEFINE new == [cached |-> TRUE, env |-> EnvFor(c)]
<1>1. /\ run.request # None /\ run.chunk = None /\ run.next = c
      /\ UNCHANGED <<setup, requestVars>>
  BY DEF Call, ComesTo
<1>2. new \in ChunkType /\ new.env = EnvFor(c)
  BY <1>1, RunFacts DEF ChunkType, EnvFor, Someone
<1> HIDE DEF new
<1>3. /\ L' \in StateType
      /\ L'.open = L.open /\ L'.current = L.current /\ L'.init = L.init
      /\ \A f \in Files : L'.chunks[f] = IF f = File(c) THEN new ELSE L.chunks[f]
  <2>1. L' = [L EXCEPT !.chunks = [L.chunks EXCEPT ![File(c)] = new]]
    BY RunFacts, <1>1 DEF Call, new, StateType
  <2>2. [L.chunks EXCEPT ![File(c)] = new] \in [Files -> ChunkType]
    BY <1>1, <1>2, RunFacts DEF StateType
  <2> QED BY <1>1, <2>1, <2>2, RunFacts DEF StateType
<1>4. /\ run' \in RunType /\ run'.next = c /\ run'.chunk = c
      /\ run'.complete = run.complete /\ run'.request = run.request
  BY <1>1, RunFacts DEF Call, RunType
<1>5. RequestTypes'
  BY <1>1, <1>3, <1>4, SameSetup DEF Kept, requestVars, RequestTypes
<1>6. File(c) \in Cleanable' \/ c = "init"
  BY <1>1, <1>4, RunFacts, SameSetup DEF File, Held, Cleanable, Coming, requestVars, Chunks
<1>7. Held'
  <2>1. Cleanable' = Cleanable
    BY <1>1, <1>4, SameSetup DEF Cleanable, Coming, requestVars
  <2> QED BY <1>1, <1>2, <1>3, <1>4, <1>6, <2>1, RunFacts, SameSetup DEF Held, EnvFor
<1> QED BY <1>1, <1>4, <1>5, <1>7, GoesOn DEF requestVars

LEMMA EndsByError ==
    ASSUME TypeOK, Kept, NEW c \in Chunks, LoadFails(c) \/ Errs(c)
    PROVE  Kept'
<1>1. /\ run.request # None
      /\ Fail(L, run.request) /\ UNCHANGED <<setup, hops, unread>>
  BY SetupFacts DEF LoadFails, Errs, ComesTo, Kept, RunOK, NoRun, TypeOK
<1> QED BY <1>1, RunFacts, FailOK DEF Held

LEMMA EndsOK ==
    ASSUME TypeOK, Kept, NEW c \in Chunks, NEW result \in Results, Ends(c, result)
    PROVE  Kept'
<1>1. /\ run.chunk = c /\ c # None
      /\ UNCHANGED <<setup, requestVars>>
  BY SetupFacts DEF Ends, TypeOK
<1>2. run.request # None /\ run.next = c
  BY <1>1, RunFacts DEF Kept, RunOK, NoRun, Held
<1>3. /\ L' \in StateType /\ L'.init = InitDone(c)
      /\ L'.open = L.open /\ L'.current = L.current /\ L'.chunks = L.chunks
  BY <1>2, RunFacts DEF Ends, StateType, InitDone
<1>4. Completes(c, result) \in BOOLEAN /\ After(c, Completes(c, result)) \in Chunks \cup {"end"}
  BY <1>2, RunFacts DEF Completes, RunType, After, Chunks
<1>5. /\ run' \in RunType /\ run'.next = After(c, Completes(c, result))
      /\ run'.chunk = None /\ run'.complete = Completes(c, result) /\ run'.request = run.request
  <2> DEFINE value == IF c \in {"pre", "main"} THEN result ELSE run.result
  <2>1. value \in Results
    BY <1>2, RunFacts DEF RunType
  <2>2. run' = [run EXCEPT !.chunk = None, !.complete = Completes(c, result),
                           !.next = After(c, Completes(c, result)), !.result = value]
    BY <1>2, RunFacts DEF Ends, RunType
  <2> HIDE DEF value
  <2> QED BY <1>2, <1>4, <2>1, <2>2, RunFacts DEF RunType
<1>6. RequestTypes'
  BY <1>1, <1>3, <1>5, SameSetup DEF Kept, requestVars, RequestTypes
<1>7. Held'
  BY <1>1, <1>2, <1>3, <1>5, RunFacts, SameSetup
  DEF Held, InitDone, After, Completes, Chunks, Cleanable, Coming, requestVars
<1> QED BY <1>1, <1>2, <1>5, <1>6, <1>7, GoesOn DEF requestVars

LEMMA ClearedOK ==
    ASSUME TypeOK, Kept, ComesTo("end")
    PROVE  /\ Cleared(L) \in StateType
           /\ Cleared(L).open /\ Cleared(L).init /\ Cleared(L).current = run.request
           /\ \A f \in Files : Cleared(L).chunks[f].env = None
<1>1. run.request # None /\ run.next = "end"
  BY DEF ComesTo
<1> DEFINE new(f) == IF f \in ToClear THEN [L.chunks[f] EXCEPT !.env = None] ELSE L.chunks[f]
           chunks == [f \in Files |-> new(f)]
<1>2. Cleared(L) = [L EXCEPT !.chunks = chunks]
  BY <1>1, RunFacts DEF Cleared, StateType
<1>3. \A f \in Files : L.chunks[f] \in ChunkType
  BY <1>1, RunFacts DEF StateType
<1>4. \A f \in Files : new(f) \in ChunkType
  BY <1>3 DEF ChunkType, Someone
<1>5. Cleanable \subseteq ToClear
  BY <1>1 DEF Cleanable, Coming, ToClear
<1>6. \A f \in Files : chunks[f].env = None
  <2>1. \A f \in Files : f \notin ToClear => L.chunks[f].env = None
    BY <1>1, <1>5, RunFacts DEF Held
  <2>2. \A f \in Files : new(f).env = None
    BY <1>3, <2>1 DEF ChunkType
  <2>3. \A f \in Files : chunks[f] = new(f)
    OBVIOUS
  <2> QED BY <2>2, <2>3
<1>7. chunks \in [Files -> ChunkType]
  BY <1>4
<1> HIDE DEF chunks
<1> QED BY <1>1, <1>2, <1>6, <1>7, RunFacts DEF StateType, Held

LEMMA FinishOK ==
    ASSUME TypeOK, Kept, Finish
    PROVE  Kept'
<1> DEFINE r == run.request
           l == Cleared(L)
<1>1. ComesTo("end") /\ r # None /\ UNCHANGED <<setup, hops, unread>>
  BY DEF Finish, ComesTo
<1>2. /\ l \in StateType /\ l.open /\ l.init /\ l.current = r
      /\ \A f \in Files : l.chunks[f].env = None
  BY <1>1, ClearedOK
<1> HIDE DEF l
<1>3. ASSUME L' = [l EXCEPT !.current = None], run' = NoRun,
             ctx' = [ctx EXCEPT ![r].stage = "done", ![r].rc = run.result]
      PROVE  Kept'
  <2>1. /\ L' \in StateType /\ L'.open /\ Clean'
    <3>1. /\ L' \in StateType /\ L'.open /\ L'.init /\ L'.current = None
          /\ L'.chunks = l.chunks
      BY <1>2, <1>3 DEF StateType, Someone
    <3> QED BY <1>1, <1>2, <3>1, SameSetup DEF Clean
  <2>2. run' \in RunType /\ run'.request = None
    BY <1>3 DEF RunType, NoRun, Someone, Chunks, Results
  <2>3. r \in Requests /\ Holders = {r} /\ run.result \in Results
    BY <1>1, RunFacts DEF RunType
  <2>4. /\ ctx' \in [Requests -> Context]
        /\ \A s \in Requests \ {r} : ctx'[s] = ctx[s] /\ s \notin Holders
        /\ ctx'[r].stage = "done" /\ ctx'[r].rc = run.result
    BY <1>3, <2>3, SMTT(40) DEF Kept, RequestTypes, Context, Stages
  <2>5. RequestTypes'
    BY <1>1, <2>1, <2>2, <2>4, SameSetup DEF Kept, RequestTypes
  <2>6. Holders' = {r} /\ OneHolder' /\ MainIsFile'
    BY <1>1, <2>3, <2>4, SameSetup DEF Holders, OneHolder, MainIsFile, Kept
  <2>7. RunOK'
    BY <1>3, <2>2, <2>3, <2>4 DEF RunOK, Holders
  <2>8. DoneOK' /\ FreeOK'
    BY <2>1, <2>3, <2>4, <2>6 DEF DoneOK, FreeOK, Holders, Clean, Results
  <2> QED BY <2>5, <2>6, <2>7, <2>8 DEF Kept
<1>4. ASSUME Fail(l, r)
      PROVE  Kept'
  <2>1. r \in Requests /\ Holders = {r}
    BY <1>1, RunFacts
  <2> QED BY <1>1, <1>2, <1>4, <2>1, FailOK
<1> QED BY <1>3, <1>4 DEF Finish, l

(* What a chunk does leaves stages and environments alone.                 *)
LEMMA CallsOK ==
    ASSUME TypeOK, Kept,
           \/ SetComplete \/ SetClose
           \/ \E r \in Requests : Redirect(r) \/ ReadBody(r)
    PROVE  Kept'
<1>1. run.request # None /\ run.chunk # None /\ UNCHANGED <<setup, hops>>
  <2>1. run.chunk # None
    BY SetupFacts DEF SetComplete, SetClose, Redirect, ReadBody, TypeOK, Chunks
  <2>2. UNCHANGED <<setup, hops>>
    BY DEF SetComplete, SetClose, Redirect, ReadBody, requestVars
  <2> QED BY <2>1, <2>2 DEF Kept, RunOK, NoRun
<1>2. CASE SetComplete
  <2>1. /\ run' \in RunType /\ run'.complete
        /\ run'.next = run.next /\ run'.chunk = run.chunk /\ run'.request = run.request
    BY <1>1, <1>2, RunFacts DEF SetComplete, RunType
  <2>2. RequestTypes'
    BY <1>2, <2>1, SameSetup DEF SetComplete, Kept, requestVars, RequestTypes
  <2>3. Held'
    BY <1>1, <1>2, <2>1, RunFacts, SameSetup
    DEF SetComplete, Held, Cleanable, Coming, requestVars, Chunks
  <2> QED BY <1>1, <1>2, <2>1, <2>2, <2>3, GoesOn DEF SetComplete, requestVars
<1>3. CASE SetClose
  <2>1. /\ L' \in StateType /\ L'.open = L.open /\ L'.current = L.current
        /\ L'.init = L.init /\ L'.chunks = L.chunks
    BY <1>1, <1>3, RunFacts DEF SetClose, StateType
  <2>2. RequestTypes'
    BY <1>3, <2>1, SameSetup DEF SetClose, Kept, requestVars, RequestTypes
  <2>3. Held'
    BY <1>1, <1>3, <2>1, RunFacts, SameSetup
    DEF SetClose, Held, Cleanable, Coming, requestVars
  <2> QED BY <1>1, <1>3, <2>2, <2>3, GoesOn DEF SetClose, requestVars
<1>4. ASSUME NEW r \in Requests, Redirect(r)
      PROVE  Kept'
  <2>1. /\ run' \in RunType /\ run'.complete = (run.complete \/ run.chunk = "pre")
        /\ run'.next = run.next /\ run'.chunk = run.chunk /\ run'.request = run.request
    BY <1>1, <1>4, RunFacts DEF Redirect, RunType
  <2>2. /\ ctx' \in [Requests -> Context]
        /\ \A s \in Requests : ctx'[s].stage = ctx[s].stage /\ ctx'[s].main = ctx[s].main
    <3>1. /\ [ctx[r] EXCEPT !.redirect = TRUE] \in Context
          /\ [ctx[r] EXCEPT !.redirect = TRUE].stage = ctx[r].stage
          /\ [ctx[r] EXCEPT !.redirect = TRUE].main = ctx[r].main
      BY <1>4 DEF Kept, RequestTypes, Context
    <3>2. ctx' = [ctx EXCEPT ![r] = [ctx[r] EXCEPT !.redirect = TRUE]]
      BY <1>4 DEF Redirect, Kept, RequestTypes, Context
    <3> QED BY <3>1, <3>2 DEF Kept, RequestTypes
  <2>3. RequestTypes'
    BY <1>4, <2>1, <2>2, SameSetup DEF Redirect, Kept, RequestTypes
  <2>4. Held'
    BY <1>1, <1>4, <2>1, <2>2, RunFacts, SameSetup
    DEF Redirect, Held, Cleanable, Coming, Chunks
  <2> QED BY <1>1, <2>1, <2>2, <2>3, <2>4, GoesOn
<1>5. ASSUME NEW r \in Requests, ReadBody(r)
      PROVE  Kept'
  <2>1. /\ ctx' \in [Requests -> Context]
        /\ \A s \in Requests : ctx'[s].stage = ctx[s].stage /\ ctx'[s].main = ctx[s].main
    <3> DEFINE reading == IF r \in unread THEN "all" ELSE "nothing"
               c == [ctx[r] EXCEPT !.read = reading]
    <3>1. reading \in Readings
      BY DEF Readings
    <3>2. ctx' = [ctx EXCEPT ![r] = c]
      BY <1>5 DEF ReadBody, Kept, RequestTypes, Context
    <3> HIDE DEF reading
    <3>3. c \in Context /\ c.stage = ctx[r].stage /\ c.main = ctx[r].main
      BY <1>5, <3>1 DEF Kept, RequestTypes, Context
    <3> HIDE DEF c
    <3> QED BY <3>2, <3>3 DEF Kept, RequestTypes
  <2>2. RequestTypes'
    BY <1>5, <2>1, SameSetup DEF ReadBody, stateVars, Kept, RequestTypes
  <2>3. Held'
    BY <1>1, <1>5, <2>1, RunFacts, SameSetup
    DEF ReadBody, stateVars, Held, Cleanable, Coming
  <2> QED BY <1>1, <1>5, <2>1, <2>2, <2>3, GoesOn DEF ReadBody, stateVars
<1> QED BY <1>2, <1>3, <1>4, <1>5

LEMMA FinalizationOK ==
    ASSUME TypeOK, Kept, NEW r \in Requests, Finalization(r)
    PROVE  Kept'
<1>1. /\ ctx[r].stage = "done" /\ r \in Holders
      /\ UNCHANGED <<setup, unread, run>> /\ L' = ReleasedState
  BY DEF Finalization, Holders
<1>2. Holders = {r} /\ run.request = None
  BY <1>1, SetupFacts DEF Kept, OneHolder, Holders, RunOK, RequestTypes, RunType, Someone, TypeOK
<1>3. NewState \in StateType
  BY DEF NewState, StateType, ChunkType, Someone
<1>4. L' \in StateType /\ (L' = NewState \/ (Clean' /\ ~L'.close))
  BY <1>1, <1>3, SameSetup DEF ReleasedState, Kept, RequestTypes, DoneOK, Clean
<1>5. \E c \in Context : /\ c.stage \in {"over", "new"}
                        /\ ctx' = [ctx EXCEPT ![r] = c]
  <2>1. ctx[r] \in Context
    BY DEF Kept, RequestTypes
  <2>2. \A status \in Statuses :
           LET a == Answered(ctx[r], status) IN a \in Context /\ a.stage = "over"
    BY <2>1, AnsweredOK
  <2>3. 0 \in Statuses /\ 500 \in Statuses /\ StatusOf(ctx[r]) \in Statuses
    BY <2>1 DEF Statuses, StatusOf, StatusFor, Context, Results
  <2>4. \/ ctx' = [ctx EXCEPT ![r] = NewContext]
        \/ \E status \in {0, 500, StatusOf(ctx[r])} :
              ctx' = [ctx EXCEPT ![r] = Answered(ctx[r], status)]
    BY DEF Finalization, Redirected, Kept, RequestTypes
  <2> QED BY <2>2, <2>3, <2>4, NewContextOK
<1>6. hops' \in [Requests -> 0 .. setup.hops]
  BY SetupFacts DEF Finalization, Redirected, Kept, RequestTypes, TypeOK
<1>7. /\ ctx' \in [Requests -> Context]
      /\ \A s \in Requests \ {r} : ctx'[s] = ctx[s] /\ s \notin Holders
      /\ ctx'[r].stage \in {"over", "new"}
  BY <1>2, <1>5 DEF Kept, RequestTypes
<1>8. RequestTypes'
  BY <1>1, <1>4, <1>6, <1>7, SameSetup DEF Kept, RequestTypes
<1>9. Holders' = {} /\ OneHolder' /\ MainIsFile'
  BY <1>1, <1>7, SameSetup DEF Holders, OneHolder, MainIsFile, Kept
<1>10. RunOK'
  BY <1>1, <1>2, <1>7, SameSetup DEF RunOK, Holders, Kept, NoRun
<1>11. DoneOK'
  BY <1>9 DEF DoneOK, Holders
<1>12. FreeOK'
  <2>1. NewState' = NewState
    BY <1>1, SameSetup DEF NewState
  <2> QED BY <1>4, <2>1 DEF FreeOK
<1> QED BY <1>8, <1>9, <1>10, <1>11, <1>12 DEF Kept

LEMMA CloseIdleOK ==
    ASSUME TypeOK, Kept, CloseIdle
    PROVE  Kept'
<1>1. /\ Holders = {} /\ L' = NewState
      /\ UNCHANGED <<setup, ctx, hops, unread, run>>
  BY DEF CloseIdle, IsFree, Holders, requestVars
<1>2. run.request = None
  BY <1>1 DEF Kept, RunOK, Holders, RequestTypes, RunType, Someone
<1>3. NewState \in StateType
  BY DEF NewState, StateType, ChunkType, Someone
<1>4. RequestTypes'
  BY <1>1, <1>3, SameSetup DEF Kept, RequestTypes
<1>5. OneHolder' /\ MainIsFile' /\ RunOK'
  BY <1>1, <1>2, SameSetup DEF Kept, OneHolder, Holders, MainIsFile, RunOK, NoRun
<1>6. DoneOK' /\ FreeOK'
  BY <1>1, SameSetup DEF DoneOK, FreeOK, Holders, NewState
<1> QED BY <1>4, <1>5, <1>6 DEF Kept

-------------------------------------------------------------------------------
LEMMA TypesSplit == TypeOK <=> FileTypes /\ RequestTypes
  BY DEF TypeOK, FileTypes, RequestTypes, StateType, RunType, ChunkType

(* The inductive invariant.                                                *)
LEMMA InitRInv == Init => RInv
<1> SUFFICES ASSUME Init
             PROVE  RInv
  OBVIOUS
<1>1. FileTypes
  <2>1. setup \in Setups /\ now \in 0 .. setup.time /\ found \subseteq MainFiles
    BY SetupFacts DEF Init
  <2>2. seen \in [MainFiles -> [there : Int, missing : Int]]
    BY <2>1, SetupFacts DEF Init
  <2>3. Cached = {}
    BY DEF Init, Cached
  <2> QED BY <2>1, <2>2, <2>3, SetupFacts, FS_EmptySet DEF FileTypes
<1>2. RequestTypes
  <2>1. ctx \in [Requests -> Context] /\ unread \subseteq Requests
    BY NewContextOK DEF Init
  <2>2. hops \in [Requests -> 0 .. setup.hops]
    BY <1>1, SetupFacts DEF Init, FileTypes
  <2>3. L \in StateType
    BY DEF Init, NewState, StateType, ChunkType, Someone
  <2>4. run \in RunType
    BY DEF Init, RunType, NoRun, Someone, Results
  <2> QED BY <2>1, <2>2, <2>3, <2>4 DEF RequestTypes
<1>3. Holders = {} /\ L = NewState /\ run = NoRun /\ \A r \in Requests : ctx[r].stage = "new"
  BY NewContextOK DEF Init, Holders
<1>4. OneHolder /\ MainIsFile /\ RunOK /\ DoneOK /\ FreeOK
  BY <1>3 DEF OneHolder, MainIsFile, RunOK, NoRun, DoneOK, FreeOK
<1> QED BY <1>1, <1>2, <1>4, TypesSplit DEF RInv

LEMMA NextRInv == RInv /\ [Next]_vars => RInv'
<1> SUFFICES ASSUME RInv, [Next]_vars
             PROVE  RInv'
  OBVIOUS
<1>1. TypeOK /\ Kept
  BY TypesSplit DEF RInv, Kept
<1>2. FileTypes'
  BY <1>1, FileTypesNext
<1>3. Kept'
  <2>1. ASSUME NEW r \in Requests, Request(r)
        PROVE  Kept'
    BY <1>1, <2>1, HandlerOK, StartOK, CallsOK, FinalizationOK DEF Request
  <2>2. ASSUME NEW c \in Chunks, Chunk(c)
        PROVE  Kept'
    BY <1>1, <2>2, SkipOK, CallOK, EndsByError, EndsOK DEF Chunk
  <2>3. CASE Finish \/ SetComplete \/ SetClose \/ CloseIdle
    BY <1>1, <2>3, FinishOK, CallsOK, CloseIdleOK
  <2>4. CASE Tick \/ AllAnswered \/ UNCHANGED vars \/ \E f \in MainFiles : ComeOrGo(f)
    BY <1>1, <2>4, StutterOK DEF Tick, ComeOrGo, AllAnswered, vars, stateVars
  <2> QED BY <2>1, <2>2, <2>3, <2>4 DEF Next
<1>4. TypeOK'
  BY <1>2, <1>3, SMTT(40) DEF TypeOK, FileTypes, Kept, RequestTypes, StateType, RunType, ChunkType
<1> QED BY <1>3, <1>4 DEF RInv, Kept

-------------------------------------------------------------------------------
(* The log: the second inductive invariant.                                *)

Entry == [request : Requests, hop : Nat, chunk : Chunks, result : Results \cup {-1},
          complete : BOOLEAN]

NextRank(c) == IF c = "end" THEN 5 ELSE Rank(c)

InOrder ==
    \A i, j \in DOMAIN log : i < j =>
        /\ log[i].result >= 0
        /\ log[j].chunk # "init"
        /\ log[i].request = log[j].request /\ log[i].hop = log[j].hop =>
              /\ Rank(log[i].chunk) < Rank(log[j].chunk)
              /\ log[j].chunk = "main" => ~log[i].complete

(* A state that was initialized remembers it.                              *)
Begins == /\ L.init => L.open
          /\ InitFile # None /\ (log # <<>> \/ L.init) => log # <<>> /\ log[1].chunk = "init"

(* An error is the end of a state.                                         *)
NoErrorBehind ==
    (\E i \in DOMAIN log : log[i].result < 0) => ~L.open \/ (L.close /\ run.request = None)

(* A request that has not got the state yet is not in its log.             *)
Unlogged ==
    \A i \in DOMAIN log :
        /\ log[i].hop <= hops[log[i].request]
        /\ log[i].hop = hops[log[i].request] => ctx[log[i].request].stage \notin {"new", "ready"}

(* The log of the request that lws_run is at work for.                     *)
LoggedUp(r) ==
    /\ run.next = "init" => log = <<>>
    /\ \A i \in Own(r) : /\ Rank(log[i].chunk) < NextRank(run.next)
                         /\ log[i].complete => run.complete
    /\ run.complete /\ run.next # "pre" => \E i \in Own(r) : log[i].complete
    /\ run.next \in {"main", "post", "end"} => (RunOf(r, "pre") <=> PreFile # None)
    /\ run.next \in {"post", "end"} => (RunOf(r, "main") <=> ~run.complete)
    /\ run.next = "end" => (RunOf(r, "post") <=> PostFile # None)
    /\ Asked(r) = {run.result} \ {0}
    /\ run.next \in {"init", "pre", "main"} => run.result = 0
    /\ run.complete /\ run.next = "pre" => run.chunk = "pre"
    /\ run.chunk = "pre" => PreFile # None
    /\ run.chunk = "post" => PostFile # None

RunLogged == run.request # None => LoggedUp(run.request)

(* ... and of one whose run is over.                                       *)
EndedWell(r) ==
    /\ \A i \in DOMAIN log : log[i].result >= 0
    /\ Asked(r) = {ctx[r].rc} \ {0}
    /\ RunOf(r, "pre") <=> PreFile # None
    /\ RunOf(r, "post") <=> PostFile # None
    /\ RunOf(r, "main") <=> \A i \in Own(r) : ~log[i].complete

EndedBadly(r) ==
    /\ ctx[r].rc = -1
    /\ MayFail("profiler") \/ \E i \in Own(r) : log[i].result = -1

DoneLogged == \A r \in Requests : ctx[r].stage = "done" =>
                 EndedBadly(r) \/ (ctx[r].rc >= 0 /\ EndedWell(r))

LogInv ==
    /\ log \in Seq(Entry)
    /\ InOrder /\ Begins /\ NoErrorBehind /\ Unlogged /\ RunLogged /\ DoneLogged

(* What was seen of the files, and what the cache says of them.            *)
SeenOK ==
    \A f \in MainFiles :
        /\ seen[f].there <= now /\ seen[f].missing <= now
        /\ IF f \in found THEN seen[f].there = now ELSE seen[f].missing = now
        /\ f \in Cached => /\ cache[f].time <= now
                           /\ IF cache[f].found THEN cache[f].time <= seen[f].there
                                                ELSE cache[f].time <= seen[f].missing

NewIsNew == \A r \in Requests : ctx[r].stage = "new" => ctx[r] = NewContext

-------------------------------------------------------------------------------
(* Files and their cache.                                                  *)

LEMMA FileVarsNext ==
    ASSUME [Next]_vars
    PROVE  /\ setup' = setup
           /\ \/ UNCHANGED <<fileVars, cache>>
              \/ \E r \in Requests : Handler(r)
              \/ Tick
              \/ \E f \in MainFiles : ComeOrGo(f)
<1>1. setup' = setup
  BY DEF Next, vars, Request, Handler, Start, Redirect, ReadBody, Finalization, Chunk, Skip, Call,
         LoadFails, Errs, Ends, Finish, SetComplete, SetClose, CloseIdle, ComeOrGo, Tick,
         AllAnswered
<1> QED
  BY <1>1, ZenonT(60)
  DEF Next, vars, Request, Start, Redirect, ReadBody, Finalization, Chunk, Skip, Call,
      LoadFails, Errs, Ends, Finish, SetComplete, SetClose, CloseIdle, AllAnswered

LEMMA SeenTypes ==
    ASSUME TypeOK
    PROVE  /\ now \in Nat /\ Timeout \in Nat /\ Cap \in Nat
           /\ seen \in [MainFiles -> [there : Int, missing : Int]]
           /\ \A f \in MainFiles : seen[f].there \in Int /\ seen[f].missing \in Int
           /\ \A f \in Cached : cache[f].found \in BOOLEAN /\ cache[f].time \in Nat
           /\ None \notin MainFiles /\ setup \in Setups
<1>1. setup \in Setups /\ setup.time \in Nat /\ Timeout \in Nat /\ Cap \in Nat
      /\ None \notin MainFiles
  BY SetupFacts DEF TypeOK
<1>2. now \in Nat
  BY <1>1 DEF TypeOK
<1>3. \A f \in Cached : cache[f].found \in BOOLEAN /\ cache[f].time \in Nat
  BY <1>1 DEF TypeOK
<1> QED BY <1>1, <1>2, <1>3 DEF TypeOK

LEMMA InitSeen == Init => SeenOK
<1> SUFFICES ASSUME Init PROVE SeenOK
  OBVIOUS
<1>1. Timeout \in Nat /\ setup \in Setups
  BY SetupFacts DEF Init
<1>2. Cached = {}
  BY DEF Init, Cached
<1>3. now = 0 /\ \A f \in MainFiles : /\ seen[f].there = IF f \in found THEN 0 ELSE -Timeout
                                      /\ seen[f].missing = IF f \in found THEN -Timeout ELSE 0
  BY DEF Init
<1> QED BY <1>1, <1>2, <1>3 DEF SeenOK

(* The cache has what stat said last time.                                 *)
LEMMA HandlerSeen ==
    ASSUME TypeOK, SeenOK, NEW f \in MainFiles, GetFileStatus(f), UNCHANGED <<setup, fileVars>>
    PROVE  SeenOK'
<1>1. MainFiles' = MainFiles /\ now' = now /\ found' = found /\ seen' = seen
  BY DEF MainFiles, fileVars
<1>2. SUFFICES ASSUME NEW g \in MainFiles, g \in Cached'
               PROVE  /\ cache'[g].time <= now
                      /\ IF cache'[g].found THEN cache'[g].time <= seen[g].there
                                            ELSE cache'[g].time <= seen[g].missing
  BY <1>1 DEF SeenOK
<1>3. CASE cache'[g] = cache[g]
  <2>1. g \in Cached
    BY <1>1, <1>2, <1>3 DEF Cached
  <2> QED BY <2>1, <1>3 DEF SeenOK
<1>4. CASE g = f /\ cache'[g] = [found |-> f \in found, time |-> now]
  <2>1. cache'[g].found = (f \in found) /\ cache'[g].time = now
    BY <1>4
  <2> QED BY <2>1, <1>4, SeenTypes DEF SeenOK
<1>5. \/ cache'[g] = cache[g]
      \/ g = f /\ cache'[g] = [found |-> f \in found, time |-> now]
  <2>1. CASE UNCHANGED cache
    BY <2>1
  <2>2. CASE Remember(f)
    <3>1. PICK e : cache' = [h \in MainFiles |->
                        CASE h = f -> [found |-> f \in found, time |-> now]
                          [] h = e -> None
                          [] OTHER -> cache[h]]
      BY <2>2 DEF Remember
    <3>2. cache'[g] # None
      BY <1>2 DEF Cached
    <3> QED BY <3>1, <3>2
  <2>3. CASE Forget(f)
    <3>1. PICK e : cache' = [h \in MainFiles |-> IF h = e THEN None ELSE cache[h]]
      BY <2>3 DEF Forget
    <3>2. cache'[g] # None
      BY <1>2 DEF Cached
    <3> QED BY <3>1, <3>2
  <2> QED BY <2>1, <2>2, <2>3 DEF GetFileStatus
<1> QED BY <1>3, <1>4, <1>5

LEMMA NextSeen == TypeOK /\ SeenOK /\ [Next]_vars => SeenOK'
<1> SUFFICES ASSUME TypeOK, SeenOK, [Next]_vars PROVE SeenOK'
  OBVIOUS
<1>1. setup' = setup /\ MainFiles' = MainFiles
  BY FileVarsNext DEF MainFiles
<1>2. CASE UNCHANGED <<fileVars, cache>>
  BY <1>1, <1>2 DEF SeenOK, Cached, fileVars
<1>3. ASSUME NEW r \in Requests, Handler(r)
      PROVE  SeenOK'
  BY <1>3, HandlerSeen DEF Handler
<1>4. CASE Tick
  <2>1. /\ now' = now + 1 /\ found' = found /\ cache' = cache
        /\ Cached' = Cached
    BY <1>1, <1>4 DEF Tick, Cached
  <2>2. \A f \in MainFiles :
           /\ f \in found => seen'[f].there = now + 1 /\ seen'[f].missing = seen[f].missing
           /\ f \notin found => seen'[f].missing = now + 1 /\ seen'[f].there = seen[f].there
    BY <1>4, SeenTypes DEF Tick, Seen
  <2> QED BY <1>1, <2>1, <2>2, SeenTypes DEF SeenOK
<1>5. ASSUME NEW g \in MainFiles, ComeOrGo(g)
      PROVE  SeenOK'
  <2>1. /\ now' = now /\ cache' = cache /\ Cached' = Cached
        /\ \A f \in MainFiles : f \in found' <=> (f \in found) # (f = g)
    BY <1>1, <1>5 DEF ComeOrGo, Cached
  <2>2. /\ \A f \in MainFiles \ {g} : seen'[f] = seen[f]
        /\ g \notin found => seen'[g].there = now /\ seen'[g].missing = seen[g].missing
        /\ g \in found => seen'[g].missing = now /\ seen'[g].there = seen[g].there
    BY <1>5, SeenTypes DEF ComeOrGo, Seen
  <2>3. ASSUME NEW f \in MainFiles, f # g
        PROVE  /\ seen'[f].there <= now /\ seen'[f].missing <= now
               /\ IF f \in found' THEN seen'[f].there = now ELSE seen'[f].missing = now
               /\ f \in Cached => /\ cache[f].time <= now
                                  /\ IF cache[f].found THEN cache[f].time <= seen'[f].there
                                                       ELSE cache[f].time <= seen'[f].missing
    BY <2>1, <2>2, <2>3 DEF SeenOK
  <2>4. /\ seen'[g].there <= now /\ seen'[g].missing <= now
        /\ IF g \in found' THEN seen'[g].there = now ELSE seen'[g].missing = now
        /\ g \in Cached => /\ cache[g].time <= now
                           /\ IF cache[g].found THEN cache[g].time <= seen'[g].there
                                                ELSE cache[g].time <= seen'[g].missing
    BY <2>1, <2>2, SeenTypes DEF SeenOK
  <2> QED BY <1>1, <2>1, <2>3, <2>4 DEF SeenOK
<1> QED BY <1>2, <1>3, <1>4, <1>5, FileVarsNext

(* What the handler goes by was so a short while ago.                      *)
LEMMA StatusIsFresh ==
    ASSUME TypeOK, SeenOK, NEW f \in MainFiles
    PROVE  LET when == IF IsFound(f) THEN seen[f].there ELSE seen[f].missing
           IN  when = now \/ when + Timeout > now
<1>1. CASE IsFresh(f)
  <2>1. f \in Cached /\ cache[f].time + Timeout > now /\ IsFound(f) = cache[f].found
    BY <1>1 DEF IsFresh, IsFound, Cached
  <2> QED BY <2>1, SeenTypes DEF SeenOK
<1>2. CASE ~IsFresh(f)
  BY <1>2 DEF IsFound, SeenOK
<1> QED BY <1>1, <1>2

(* Who moves a request on.                                                 *)
LEMMA ContextSteps ==
    ASSUME TypeOK, Kept, [Next]_vars, NEW s \in Requests
    PROVE  \/ /\ ctx'[s].stage = ctx[s].stage
              /\ ctx[s].stage # "running" => ctx'[s] = ctx[s]
           \/ Handler(s)
           \/ Start(s)
           \/ ctx[s].stage = "running" /\ ctx'[s].stage = "done"
           \/ Finalization(s)
<1> DEFINE Same == ctx'[s].stage = ctx[s].stage /\ (ctx[s].stage # "running" => ctx'[s] = ctx[s])
<1>1. ctx \in [Requests -> Context] /\ None \notin Requests /\ None \notin Chunks
  BY SetupFacts DEF TypeOK
<1>2. ASSUME NEW r, NEW c, ctx' = [ctx EXCEPT ![r] = c], r # s
      PROVE  Same
  BY <1>1, <1>2
<1>3. ASSUME UNCHANGED ctx
      PROVE  Same
  BY <1>3
<1>4. run.request = s => ctx[s].stage = "running"
  BY <1>1 DEF Kept, RunOK
<1>5. run.request = None => run.next = "end" /\ run.chunk = None
  BY DEF Kept, RunOK, NoRun
<1>6. ASSUME NEW l, NEW r, Fail(l, r)
      PROVE  Same \/ (r = s /\ ctx'[s].stage = "done")
  <2>1. CASE r = s
    BY <1>1, <1>6, <2>1 DEF Fail, Context
  <2>2. CASE r # s
    BY <1>1, <1>6, <2>2 DEF Fail
  <2> QED BY <2>1, <2>2
<1>7. ASSUME NEW r \in Requests, Handler(r), r # s
      PROVE  Same
  BY <1>1, <1>7 DEF Handler
<1>8. ASSUME NEW r \in Requests, Start(r), r # s
      PROVE  Same
  <2>1. CASE ctx' = [ctx EXCEPT ![r].stage = "running"]
    BY <1>1, <1>8, <2>1
  <2>2. ASSUME NEW l, Fail(l, r)
        PROVE  Same
    BY <1>6, <1>8, <2>2
  <2> QED BY <1>8, <2>1, <2>2 DEF Start
<1>9. ASSUME NEW r \in Requests, Finalization(r), r # s
      PROVE  Same
  BY <1>1, <1>9 DEF Finalization, Redirected
<1>10. ASSUME NEW r \in Requests, Redirect(r) \/ ReadBody(r)
       PROVE  Same
  <2>1. CASE r = s
    <3>1. ctx[s].stage = "running"
      BY <1>4, <1>10, <2>1 DEF Redirect, ReadBody
    <3>2. CASE Redirect(r)
      BY <1>1, <2>1, <3>1, <3>2 DEF Redirect, Context
    <3>3. CASE ReadBody(r)
      <4>1. PICK reading : ctx' = [ctx EXCEPT ![r].read = reading]
        BY <3>3 DEF ReadBody
      <4> QED BY <1>1, <2>1, <3>1, <4>1 DEF Context
    <3> QED BY <1>10, <3>2, <3>3
  <2>2. CASE r # s
    BY <1>1, <1>10, <2>2 DEF Redirect, ReadBody
  <2> QED BY <2>1, <2>2
<1>11. ASSUME NEW c \in Chunks, Chunk(c)
       PROVE  Same \/ (ctx[s].stage = "running" /\ ctx'[s].stage = "done")
  <2>1. ASSUME Fail(L, run.request)
        PROVE  Same \/ (ctx[s].stage = "running" /\ ctx'[s].stage = "done")
    BY <1>4, <1>6, <2>1
  <2>2. UNCHANGED ctx \/ Fail(L, run.request)
    BY <1>11 DEF Chunk, Skip, Call, LoadFails, Errs, Ends, requestVars
  <2> QED BY <2>1, <2>2, <1>3
<1>12. ASSUME Finish
       PROVE  Same \/ (ctx[s].stage = "running" /\ ctx'[s].stage = "done")
  <2>1. ASSUME NEW l, Fail(l, run.request)
        PROVE  Same \/ (ctx[s].stage = "running" /\ ctx'[s].stage = "done")
    BY <1>4, <1>6, <2>1
  <2>2. ASSUME ctx' = [ctx EXCEPT ![run.request].stage = "done",
                                  ![run.request].rc = run.result]
        PROVE  Same \/ (ctx[s].stage = "running" /\ ctx'[s].stage = "done")
    <3>1. CASE run.request = s
      BY <1>1, <1>4, <2>2, <3>1 DEF Context
    <3>2. CASE run.request # s
      BY <1>1, <2>2, <3>2
    <3> QED BY <3>1, <3>2
  <2> QED BY <1>12, <2>1, <2>2 DEF Finish
<1>13. ASSUME \/ SetComplete \/ SetClose \/ CloseIdle \/ Tick \/ AllAnswered \/ UNCHANGED vars
              \/ \E f \in MainFiles : ComeOrGo(f)
       PROVE  Same
  BY <1>3, <1>13
  DEF SetComplete, SetClose, CloseIdle, Tick, AllAnswered, ComeOrGo, vars, requestVars
<1> HIDE DEF Same
<1>14. ASSUME NEW r \in Requests, Request(r)
       PROVE  Same \/ Handler(s) \/ Start(s) \/ Finalization(s)
  BY <1>7, <1>8, <1>9, <1>10, <1>14 DEF Request
<1>15. Same \/ Handler(s) \/ Start(s) \/ (ctx[s].stage = "running" /\ ctx'[s].stage = "done")
            \/ Finalization(s)
  <2>1. CASE Next
    BY <2>1, <1>11, <1>12, <1>13, <1>14 DEF Next
  <2>2. CASE UNCHANGED vars
    BY <2>2, <1>13
  <2> QED BY <2>1, <2>2
<1> QED BY <1>15 DEF Same

LEMMA NotNew ==
    ASSUME TypeOK, NEW s \in Requests
    PROVE  /\ Handler(s) => ctx'[s].stage # "new"
           /\ Start(s) => ctx'[s].stage # "new"
           /\ Finalization(s) => ctx'[s].stage = "over" \/ ctx'[s] = NewContext
<1>1. ctx \in [Requests -> Context]
  BY DEF TypeOK
<1>2. \A c, status : Answered(c, status).stage = "over"
  BY DEF Answered, NewContext
<1>3. ASSUME Handler(s)
      PROVE  ctx'[s].stage # "new"
  <2>1. PICK f \in MainFiles :
          \/ ctx' = [ctx EXCEPT ![s] = Answered(Chosen(s, f), 404)]
          \/ ctx' = [ctx EXCEPT ![s] = Answered(Chosen(s, f), 500)]
          \/ ctx' = [ctx EXCEPT ![s] = LetIn(Chosen(s, f))]
    BY <1>3 DEF Handler
  <2>2. LetIn(Chosen(s, f)).stage = "ready"
    BY <1>1 DEF Chosen, LetIn, Context
  <2> HIDE DEF Chosen
  <2> QED BY <1>1, <1>2, <2>1, <2>2
<1>4. ASSUME Start(s)
      PROVE  ctx'[s].stage # "new"
  BY <1>1, <1>4 DEF Start, Fail, Context
<1>5. ASSUME Finalization(s)
      PROVE  ctx'[s].stage = "over" \/ ctx'[s] = NewContext
  BY <1>1, <1>2, <1>5 DEF Finalization, Redirected
<1> QED BY <1>3, <1>4, <1>5

(* A request is new only when it has just come, or come back.              *)
LEMMA NextIsNew == TypeOK /\ Kept /\ NewIsNew /\ [Next]_vars => NewIsNew'
<1> SUFFICES ASSUME TypeOK, Kept, NewIsNew, [Next]_vars,
                    NEW s \in Requests, ctx'[s].stage = "new"
             PROVE  ctx'[s] = NewContext
  BY DEF NewIsNew
<1>1. CASE ctx'[s].stage = ctx[s].stage /\ (ctx[s].stage # "running" => ctx'[s] = ctx[s])
  BY <1>1 DEF NewIsNew
<1>2. CASE Handler(s) \/ Start(s) \/ Finalization(s)
  BY <1>2, NotNew
<1> QED BY <1>1, <1>2, ContextSteps

-------------------------------------------------------------------------------
(* The log under each action.                                              *)

LEMMA LogTypes ==
    ASSUME log \in Seq(Entry)
    PROVE  /\ Len(log) \in Nat
           /\ DOMAIN log = 1 .. Len(log)
           /\ \A i \in DOMAIN log : /\ log[i] \in Entry
                                    /\ log[i].request \in Requests
                                    /\ log[i].hop \in Nat
                                    /\ log[i].chunk \in Chunks
                                    /\ log[i].result \in Results \cup {-1}
                                    /\ log[i].complete \in BOOLEAN
<1>1. Len(log) \in Nat /\ DOMAIN log = 1 .. Len(log) /\ \A i \in DOMAIN log : log[i] \in Entry
  OBVIOUS
<1> QED BY <1>1 DEF Entry

(* What is said of a request is the same if the log is.                    *)
LEMMA SameOwn ==
    ASSUME log' = log, NEW r, hops'[r] = hops[r]
    PROVE  /\ Own(r)' = Own(r)
           /\ Asked(r)' = Asked(r)
           /\ \A c : RunOf(r, c)' <=> RunOf(r, c)
<1>1. Own(r)' = Own(r)
  BY DEF Own
<1>2. Asked(r)' = Asked(r)
  BY <1>1 DEF Asked
<1>3. \A c : RunOf(r, c)' <=> RunOf(r, c)
  BY <1>1 DEF RunOf
<1> QED BY <1>1, <1>2, <1>3

(* A chunk ends.                                                           *)
LEMMA AppendOwn ==
    ASSUME log \in Seq(Entry), NEW e \in Entry, log' = Append(log, e), hops' = hops,
           NEW r, e.request = r, e.hop = hops[r]
    PROVE  /\ log' \in Seq(Entry)
           /\ DOMAIN log' = DOMAIN log \cup {Len(log) + 1}
           /\ Len(log) \in Nat /\ DOMAIN log = 1 .. Len(log)
           /\ \A i \in DOMAIN log : log'[i] = log[i]
           /\ log'[Len(log) + 1] = e
           /\ Own(r)' = Own(r) \cup {Len(log) + 1}
           /\ Own(r) \subseteq DOMAIN log
           /\ \A c : RunOf(r, c)' <=> RunOf(r, c) \/ e.chunk = c
           /\ e.chunk \in {"pre", "main"} => Asked(r)' = Asked(r) \cup ({e.result} \ {0})
           /\ e.chunk \notin {"pre", "main"} => Asked(r)' = Asked(r)
<1> DEFINE n == Len(log)
<1>1. /\ log' \in Seq(Entry)
      /\ n \in Nat /\ DOMAIN log = 1 .. n
      /\ DOMAIN log' = 1 .. n + 1
      /\ \A i \in 1 .. n : log'[i] = log[i]
      /\ log'[n + 1] = e
  OBVIOUS
<1> HIDE DEF n
<1>2. DOMAIN log' = DOMAIN log \cup {n + 1} /\ n + 1 \notin DOMAIN log
  BY <1>1
<1>3. Own(r)' = Own(r) \cup {n + 1} /\ Own(r) \subseteq DOMAIN log
  BY <1>1, <1>2 DEF Own
<1>4. \A i \in Own(r) : log'[i] = log[i]
  BY <1>1, <1>3
<1>5. \A c : RunOf(r, c)' <=> RunOf(r, c) \/ e.chunk = c
  BY <1>1, <1>3, <1>4 DEF RunOf
<1> DEFINE J == {i \in Own(r) : log[i].chunk \in {"pre", "main"}}
           K == {i \in Own(r)' : log'[i].chunk \in {"pre", "main"}}
<1>6. Asked(r) = {log[i].result : i \in J} \ {0} /\ Asked(r)' = {log'[i].result : i \in K} \ {0}
  BY DEF Asked
<1>7. CASE e.chunk \in {"pre", "main"}
  <2>1. K = J \cup {n + 1} /\ \A i \in J : log'[i] = log[i]
    BY <1>1, <1>3, <1>4, <1>7
  <2> HIDE DEF J, K
  <2>2. {log'[i].result : i \in K} = {log[i].result : i \in J} \cup {e.result}
    BY <1>1, <2>1, ZenonT(60)
  <2> QED BY <1>1, <1>2, <1>3, <1>5, <1>6, <1>7, <2>2 DEF n
<1>8. CASE e.chunk \notin {"pre", "main"}
  <2>1. K = J /\ \A i \in J : log'[i] = log[i]
    BY <1>1, <1>3, <1>4, <1>8
  <2> HIDE DEF J, K
  <2>2. {log'[i].result : i \in K} = {log[i].result : i \in J}
    BY <2>1
  <2> QED BY <1>1, <1>2, <1>3, <1>5, <1>6, <1>8, <2>2 DEF n
<1> QED BY <1>7, <1>8

LEMMA SameLog ==
    ASSUME LogInv, UNCHANGED <<setup, log>>
    PROVE  log' \in Seq(Entry) /\ InOrder'
  BY DEF LogInv, InOrder

(* An action that leaves the log and the run alone, and the stages of the  *)
(* requests that are done or at work.                                      *)
LEMMA LogStutter ==
    ASSUME LogInv, UNCHANGED <<setup, log, hops, L, run>>,
           \A r \in Requests :
               \/ ctx'[r].stage = ctx[r].stage /\ ctx'[r].rc = ctx[r].rc
               \/ ctx[r].stage = "new" /\ ctx'[r].stage # "done"
    PROVE  LogInv'
<1>1. log' \in Seq(Entry) /\ InOrder'
  BY SameLog
<1>2. Begins' /\ NoErrorBehind'
  BY DEF LogInv, Begins, InitFile, NoErrorBehind
<1>3. Unlogged'
  BY LogTypes DEF LogInv, Unlogged
<1>4. ASSUME NEW r
      PROVE  /\ LoggedUp(r) => LoggedUp(r)'
             /\ EndedWell(r) /\ ctx'[r].rc = ctx[r].rc => EndedWell(r)'
             /\ EndedBadly(r) /\ ctx'[r].rc = ctx[r].rc => EndedBadly(r)'
  <2>1. PreFile' = PreFile /\ PostFile' = PostFile /\ (MayFail("profiler")' <=> MayFail("profiler"))
    BY DEF PreFile, PostFile, MayFail
  <2>2. /\ Own(r)' = Own(r)
        /\ Asked(r)' = Asked(r)
        /\ \A c : RunOf(r, c)' <=> RunOf(r, c)
    BY SameOwn
  <2>3. LoggedUp(r) => LoggedUp(r)'
    BY <2>1, <2>2 DEF LoggedUp
  <2>4. ASSUME EndedWell(r), ctx'[r].rc = ctx[r].rc
        PROVE  EndedWell(r)'
    BY <2>1, <2>2, <2>4 DEF EndedWell
  <2>5. ASSUME EndedBadly(r), ctx'[r].rc = ctx[r].rc
        PROVE  EndedBadly(r)'
    BY <2>1, <2>2, <2>5 DEF EndedBadly
  <2> QED BY <2>3, <2>4, <2>5
<1>5. RunLogged'
  BY <1>4 DEF LogInv, RunLogged
<1>6. DoneLogged'
  BY <1>4 DEF LogInv, DoneLogged
<1> QED BY <1>1, <1>2, <1>3, <1>5, <1>6 DEF LogInv

LEMMA InitLog == Init => LogInv
<1> SUFFICES ASSUME Init PROVE LogInv
  OBVIOUS
<1>1. log = <<>> /\ DOMAIN log = {} /\ log \in Seq(Entry)
  BY DEF Init
<1>2. InOrder /\ NoErrorBehind /\ Unlogged
  BY <1>1 DEF InOrder, NoErrorBehind, Unlogged
<1>3. Begins
  BY <1>1 DEF Init, Begins, NewState
<1>4. RunLogged
  BY DEF Init, RunLogged, NoRun
<1>5. DoneLogged
  BY NewContextOK DEF Init, DoneLogged
<1> QED BY <1>1, <1>2, <1>3, <1>4, <1>5 DEF LogInv

(* An error is the last entry, or it is an error of the profiler.          *)
LEMMA FailLog ==
    ASSUME TypeOK, NEW r \in Requests, Holders \subseteq {r}, NEW l, Fail(l, r),
           UNCHANGED <<setup, hops>>,
           log' \in Seq(Entry), InOrder', Begins',
           \A i \in DOMAIN log' :
               /\ log'[i].hop <= hops[log'[i].request]
               /\ log'[i].hop = hops[log'[i].request] =>
                     ctx[log'[i].request].stage \notin {"new", "ready"} \/ log'[i].request = r,
           MayFail("profiler") \/ \E i \in Own(r)' : log'[i].result = -1,
           L \in StateType, l \in StateType
    PROVE  LogInv'
<1>1. /\ L' = [l EXCEPT !.close = TRUE] /\ L'.close
      /\ run' = NoRun /\ run'.request = None
      /\ ctx'[r].stage = "done" /\ ctx'[r].rc = -1
      /\ \A s \in Requests \ {r} : ctx'[s] = ctx[s] /\ ctx[s].stage # "done"
  BY DEF Fail, NoRun, TypeOK, Context, StateType, Holders
<1>2. NoErrorBehind'
  BY <1>1 DEF NoErrorBehind
<1>3. Unlogged'
  <2>1. \A i \in DOMAIN log' : log'[i] \in Entry
    OBVIOUS
  <2>2. \A i \in DOMAIN log' : log'[i].request \in Requests
    BY <2>1 DEF Entry
  <2> QED BY <1>1, <2>2 DEF Unlogged
<1>4. RunLogged'
  BY <1>1 DEF RunLogged
<1>5. EndedBadly(r)'
  BY <1>1 DEF EndedBadly, MayFail
<1>6. DoneLogged'
  BY <1>1, <1>5 DEF DoneLogged
<1> QED BY <1>2, <1>3, <1>4, <1>6 DEF LogInv

LEMMA RememberedLog ==
    ASSUME LogInv, \A i \in DOMAIN log : log[i].result >= 0
    PROVE  /\ Remembered \in Seq(Entry)
           /\ DOMAIN Remembered \subseteq {1} \cap DOMAIN log
           /\ 1 \in DOMAIN Remembered => Remembered[1] = log[1] /\ log[1].chunk = "init"
           /\ log # <<>> /\ log[1].chunk = "init" => Remembered # <<>> /\ 1 \in DOMAIN Remembered
<1>1. CASE log = <<>>
  BY <1>1 DEF Remembered
<1>2. CASE log # <<>>
  <2>1. /\ 1 \in DOMAIN log /\ Len(log) \in DOMAIN log
        /\ log[1] \in Entry
    BY <1>2 DEF LogInv
  <2>2. ~(log[Len(log)].result < 0)
    <3>1. log[Len(log)].result \in Int
      BY <2>1, LogTypes DEF LogInv, Results
    <3> QED BY <2>1, <3>1
  <2>3. Remembered = IF log[1].chunk = "init" THEN <<log[1]>> ELSE <<>>
    <3>1. <<log[1]>> \o <<>> = <<log[1]>> /\ <<>> \o <<>> = <<>>
      OBVIOUS
    <3> QED BY <1>2, <2>2, <3>1 DEF Remembered
  <2> QED BY <1>2, <2>1, <2>3
<1> QED BY <1>1, <1>2

LEMMA StartLog ==
    ASSUME TypeOK, Kept, LogInv, NEW r \in Requests, Start(r)
    PROVE  LogInv'
<1> DEFINE l == [L EXCEPT !.open = TRUE, !.current = r]
<1>1. /\ Holders = {} /\ ctx[r].stage = "ready" /\ UNCHANGED <<setup, hops>>
      /\ log' = IF L.open THEN Remembered ELSE <<>>
  BY DEF Start, IsFree, Holders
<1>2. run.request = None
  BY <1>1 DEF Kept, RunOK, Holders, RequestTypes, RunType, Someone
<1>3. L.open <=> L.init
  BY <1>1 DEF Kept, FreeOK, NewState, Clean, LogInv, Begins
<1>4. L.open => \A i \in DOMAIN log : log[i].result >= 0
  <2>1. ASSUME L.open
        PROVE  ~L.close
    BY <1>1, <2>1 DEF Kept, FreeOK, NewState
  <2>2. ASSUME L.open, NEW i \in DOMAIN log
        PROVE  log[i].result >= 0
    <3>1. ~(log[i].result < 0)
      BY <2>1, <2>2 DEF LogInv, NoErrorBehind
    <3> QED BY <3>1, LogTypes DEF LogInv, Results
  <2> QED BY <2>2
<1>5. /\ log' \in Seq(Entry)
      /\ DOMAIN log' \subseteq {1} \cap DOMAIN log
      /\ 1 \in DOMAIN log' => log'[1] = log[1] /\ log[1].chunk = "init" /\ log[1].result >= 0
      /\ ~L.open => log' = <<>>
      /\ L.open /\ log # <<>> /\ log[1].chunk = "init" => log' # <<>> /\ 1 \in DOMAIN log'
  <2>1. CASE L.open
    BY <1>1, <1>4, <2>1, RememberedLog
  <2>2. CASE ~L.open
    BY <1>1, <2>2
  <2> QED BY <2>1, <2>2
<1>6. InOrder'
  BY <1>5 DEF InOrder
<1>7. ASSUME NEW i \in DOMAIN log'
      PROVE  /\ log'[i].hop <= hops[log'[i].request]
             /\ log'[i].hop = hops[log'[i].request] =>
                   ctx[log'[i].request].stage \notin {"new", "ready"}
             /\ log'[i].request \in Requests
             /\ log'[i].request = r => log'[i].hop # hops[r]
             /\ log'[i].result >= 0
  BY <1>1, <1>5, LogTypes DEF LogInv, Unlogged
<1>8. L \in StateType /\ l \in StateType /\ l.open /\ l.init = L.init
  BY DEF Kept, RequestTypes, StateType, Someone
<1> HIDE DEF l
<1>9. ASSUME L'.init = L.init, L'.open
      PROVE  Begins'
  BY <1>1, <1>3, <1>5, <1>9 DEF LogInv, Begins, InitFile
<1>10. CASE MayFail("profiler") /\ Fail(l, r)
  <2>1. Begins'
    <3>1. L'.init = L.init /\ L'.open
      BY <1>8, <1>10 DEF Fail, StateType
    <3> QED BY <1>9, <3>1
  <2> QED BY <1>1, <1>5, <1>6, <1>7, <1>8, <1>10, <2>1, FailLog
<1>11. CASE /\ L' = l
            /\ run' = [NoRun EXCEPT !.request = r, !.next = IF L.init THEN "pre" ELSE "init"]
            /\ ctx' = [ctx EXCEPT ![r].stage = "running"]
  <2>1. Begins'
    BY <1>8, <1>9, <1>11
  <2>2. NoErrorBehind'
    <3>1. ASSUME NEW i \in DOMAIN log'
          PROVE  ~(log'[i].result < 0)
      <4>1. log'[i].result \in Results \cup {-1}
        BY <1>5, LogTypes DEF LogInv
      <4> QED BY <1>7, <4>1 DEF Results
    <3> QED BY <3>1 DEF NoErrorBehind
  <2>3. /\ ctx'[r].stage = "running"
        /\ \A s \in Requests \ {r} : ctx'[s] = ctx[s] /\ ctx[s].stage # "done"
    BY <1>1, <1>11 DEF TypeOK, Context, Holders
  <2>4. Unlogged'
    BY <1>1, <1>7, <2>3 DEF Unlogged
  <2>5. DoneLogged'
    BY <2>3 DEF DoneLogged
  <2>6. /\ run'.request = r /\ run'.next = IF L.init THEN "pre" ELSE "init"
        /\ ~run'.complete /\ run'.result = 0 /\ run'.chunk = None
    BY <1>11 DEF NoRun
  <2>7. Own(r)' = {}
    BY <1>1, <1>7 DEF Own
  <2>8. Asked(r)' = {} /\ \A c : ~RunOf(r, c)'
    BY <2>7 DEF Asked, RunOf
  <2>9. LoggedUp(r)'
    <3>1. run'.chunk # "pre" /\ run'.chunk # "post"
      BY <2>6, SetupFacts DEF TypeOK, Chunks
    <3>2. run'.next = "init" => log' = <<>>
      BY <1>3, <1>5, <2>6
    <3> QED BY <2>6, <2>7, <2>8, <3>1, <3>2 DEF LoggedUp
  <2>10. RunLogged'
    BY <2>6, <2>9 DEF RunLogged
  <2> QED BY <1>5, <1>6, <2>1, <2>2, <2>4, <2>5, <2>10 DEF LogInv
<1> QED BY <1>10, <1>11 DEF Start, l

(* While lws_run is at work there is no error behind it.                   *)
LEMMA NoErrorYet ==
    ASSUME TypeOK, Kept, LogInv, run.request # None
    PROVE  \A i \in DOMAIN log : log[i].result >= 0
<1>1. ~\E i \in DOMAIN log : log[i].result < 0
  BY RunFacts DEF Held, LogInv, NoErrorBehind
<1> QED BY <1>1, LogTypes DEF LogInv, Results

(* While lws_run goes on without an entry in the log.                      *)
LEMMA SilentLog ==
    ASSUME TypeOK, Kept, LogInv, NEW r \in Requests, run.request = r, run'.request = r,
           UNCHANGED <<setup, log, hops>>,
           \A s \in Requests : ctx'[s].stage = ctx[s].stage,
           Begins', LoggedUp(r)'
    PROVE  LogInv'
<1>1. log' \in Seq(Entry) /\ InOrder' /\ r # None
  BY SameLog, SetupFacts DEF TypeOK
<1>2. NoErrorBehind'
  <2>1. \A i \in DOMAIN log : ~(log[i].result < 0)
    BY <1>1, NoErrorYet, LogTypes DEF LogInv, Results
  <2> QED BY <2>1 DEF NoErrorBehind
<1>3. Unlogged'
  BY LogTypes DEF LogInv, Unlogged
<1>4. RunLogged'
  BY DEF RunLogged
<1>5. DoneLogged'
  BY <1>1, RunFacts DEF DoneLogged, Holders, Kept, RunOK
<1> QED BY <1>1, <1>2, <1>3, <1>4, <1>5 DEF LogInv

LEMMA SkipLog ==
    ASSUME TypeOK, Kept, LogInv, NEW c \in Chunks, Skip(c)
    PROVE  LogInv'
<1> PICK r \in Someone : r = run.request
  BY DEF Kept, RequestTypes, RunType
<1>1. /\ r \in Requests /\ r # None /\ run.chunk = None /\ run.next = c /\ File(c) = None
      /\ UNCHANGED <<setup, ctx, hops, log>>
  BY DEF Skip, ComesTo, requestVars, Someone
<1>2. /\ run' = [run EXCEPT !.next = After(c, run.complete)]
      /\ L' = [L EXCEPT !.init = InitDone(c)]
  BY DEF Skip
<1>3. /\ run'.next = After(c, run.complete) /\ run'.request = r /\ run'.chunk = run.chunk
      /\ run'.complete = run.complete /\ run'.result = run.result
      /\ run.complete \in BOOLEAN
  BY <1>1, <1>2, RunFacts DEF RunType
<1>4. L'.init = InitDone(c) /\ L'.open = L.open /\ L.open
  BY <1>1, <1>2, RunFacts DEF StateType, Held
<1>5. c # "main"
  BY <1>1, RunFacts, SetupFacts DEF File, TypeOK
<1>6. Begins'
  BY <1>1, <1>4 DEF LogInv, Begins, InitFile, InitDone, File
<1>7. LoggedUp(r)
  BY <1>1 DEF LogInv, RunLogged
<1>8. /\ Own(r)' = Own(r) /\ Asked(r)' = Asked(r)
      /\ \A d : RunOf(r, d)' <=> RunOf(r, d)
      /\ PreFile' = PreFile /\ PostFile' = PostFile
  BY <1>1, SameOwn DEF PreFile, PostFile
<1>9. Own(r) \subseteq DOMAIN log /\ \A i \in Own(r) : log[i].chunk \in Chunks
  BY LogTypes DEF Own, LogInv
<1>10. \A d : NextRank(c) <= Rank(d) => ~RunOf(r, d)
  <2> SUFFICES ASSUME NEW d, NextRank(c) <= Rank(d), NEW i \in Own(r), log[i].chunk = d
               PROVE  FALSE
    BY DEF RunOf
  <2>1. Rank(d) < NextRank(c) /\ d \in Chunks
    BY <1>1, <1>7, <1>9 DEF LoggedUp
  <2> QED BY <2>1 DEF NextRank, Rank, Chunks
<1>11. run.complete => c \in {"pre", "post", "end"}
  BY <1>1, RunFacts DEF Held
<1>12. None \notin Chunks
  BY SetupFacts DEF TypeOK
<1>13. CASE c = "init"
  <2>1. Own(r) = {}
    BY <1>1, <1>7, <1>9, <1>13 DEF LoggedUp
  <2>2. run'.next = "pre" /\ ~run'.complete /\ run'.result = 0
    BY <1>1, <1>3, <1>7, <1>11, <1>13 DEF LoggedUp, After
  <2>3. LoggedUp(r)'
    BY <1>1, <1>3, <1>7, <1>8, <1>12, <1>13, <2>1, <2>2 DEF LoggedUp, Chunks
  <2> QED BY <1>1, <1>3, <1>6, <2>3, SilentLog
<1>14. CASE c = "pre"
  <2>1. ~run.complete /\ PreFile = None /\ run'.next = "main" /\ run'.result = 0
    BY <1>1, <1>3, <1>7, <1>12, <1>14 DEF LoggedUp, After, File, Chunks
  <2>2. ~RunOf(r, "pre")
    BY <1>10, <1>14 DEF NextRank, Rank
  <2>3. \A i \in Own(r) : Rank(log[i].chunk) < 3
    BY <1>1, <1>7, <1>9, <1>14 DEF LoggedUp, NextRank, Rank, Chunks
  <2>4. LoggedUp(r)'
    BY <1>1, <1>3, <1>7, <1>8, <1>12, <1>14, <2>1, <2>2, <2>3
    DEF LoggedUp, Chunks, NextRank, Rank
  <2> QED BY <1>1, <1>3, <1>6, <2>4, SilentLog
<1>15. CASE c = "post"
  <2>1. PostFile = None /\ run'.next = "end"
    BY <1>1, <1>3, <1>15 DEF After, File
  <2>2. ~RunOf(r, "post")
    BY <1>10, <1>15 DEF NextRank, Rank
  <2>3. \A i \in Own(r) : Rank(log[i].chunk) < 5
    BY <1>1, <1>7, <1>9, <1>15 DEF LoggedUp, NextRank, Rank, Chunks
  <2>4. LoggedUp(r)'
    BY <1>1, <1>3, <1>7, <1>8, <1>12, <1>15, <2>1, <2>2, <2>3
    DEF LoggedUp, Chunks, NextRank, Rank
  <2> QED BY <1>1, <1>3, <1>6, <2>4, SilentLog
<1> QED BY <1>5, <1>13, <1>14, <1>15 DEF Chunks

(* The run goes on with its chunk, which may complete the request.         *)
LEMMA SameLoggedUp ==
    ASSUME TypeOK, LogInv, NEW r \in Requests, run.request = r,
           UNCHANGED <<setup, log, hops>>,
           run'.next = run.next, run'.result = run.result,
           run'.complete # run.complete => run'.complete /\ run.next = "pre" /\ run.chunk = "pre",
           run'.chunk = run.chunk \/ (run'.chunk = run.next /\ File(run.next) # None)
    PROVE  LoggedUp(r)'
<1>1. LoggedUp(r)
  BY SetupFacts DEF LogInv, RunLogged, TypeOK
<1>2. /\ Own(r)' = Own(r) /\ Asked(r)' = Asked(r)
      /\ \A d : RunOf(r, d)' <=> RunOf(r, d)
      /\ PreFile' = PreFile /\ PostFile' = PostFile
  BY SameOwn DEF PreFile, PostFile
<1>3. run.complete \in BOOLEAN /\ run'.complete => run.complete \/ run.next = "pre"
  BY DEF TypeOK
<1> QED BY <1>1, <1>2, <1>3 DEF LoggedUp, File

LEMMA CallLog ==
    ASSUME TypeOK, Kept, LogInv, NEW c \in Chunks, Call(c)
    PROVE  LogInv'
<1> PICK r \in Someone : r = run.request
  BY DEF Kept, RequestTypes, RunType
<1>1. /\ r \in Requests /\ r # None /\ run.chunk = None /\ run.next = c /\ File(c) # None
      /\ UNCHANGED <<setup, ctx, hops, log>>
  BY DEF Call, ComesTo, requestVars, Someone
<1>2. L'.init = L.init /\ L'.open = L.open
  BY <1>1, RunFacts DEF Call, StateType
<1>3. /\ run'.next = c /\ run'.chunk = c /\ run'.request = r
      /\ run'.complete = run.complete /\ run'.result = run.result
  BY <1>1, RunFacts DEF Call, RunType
<1>4. Begins'
  BY <1>1, <1>2 DEF LogInv, Begins, InitFile
<1>5. LoggedUp(r)'
  BY <1>1, <1>3, SameLoggedUp
<1> QED BY <1>1, <1>3, <1>4, <1>5, SilentLog

LEMMA LibraryLog ==
    ASSUME TypeOK, Kept, LogInv,
           \/ SetComplete \/ SetClose
           \/ \E r \in Requests : Redirect(r) \/ ReadBody(r)
    PROVE  LogInv'
<1> PICK r \in Someone : r = run.request
  BY DEF Kept, RequestTypes, RunType
<1>1. /\ r # None /\ run.chunk # None /\ UNCHANGED <<setup, hops, log>>
  <2>1. run.chunk # None
    BY SetupFacts DEF SetComplete, SetClose, Redirect, ReadBody, TypeOK, Chunks
  <2>2. UNCHANGED <<setup, hops, log>>
    BY DEF SetComplete, SetClose, Redirect, ReadBody, requestVars, stateVars
  <2> QED BY <2>1, <2>2 DEF Kept, RunOK, NoRun
<1>2. r \in Requests /\ run.next = run.chunk
  BY <1>1, RunFacts DEF Held
<1>3. L'.init = L.init /\ L'.open = L.open
  BY <1>1, RunFacts DEF SetComplete, SetClose, Redirect, ReadBody, StateType, stateVars
<1>4. Begins'
  BY <1>1, <1>3 DEF LogInv, Begins, InitFile
<1>5. /\ run'.next = run.next /\ run'.chunk = run.chunk /\ run'.request = r
      /\ run'.result = run.result
      /\ run'.complete # run.complete => run'.complete /\ run.chunk = "pre"
  <2>1. run \in RunType
    BY <1>1, RunFacts
  <2>2. CASE SetComplete
    BY <2>1, <2>2 DEF SetComplete, RunType
  <2>3. CASE SetClose
    BY <2>3 DEF SetClose
  <2>4. ASSUME NEW s \in Requests, Redirect(s)
        PROVE  /\ run'.next = run.next /\ run'.chunk = run.chunk /\ run'.request = r
               /\ run'.result = run.result
               /\ run'.complete # run.complete => run'.complete /\ run.chunk = "pre"
    <3>1. /\ run'.next = run.next /\ run'.chunk = run.chunk /\ run'.request = r
          /\ run'.result = run.result
          /\ run'.complete = (run.complete \/ run.chunk = "pre")
      BY <2>1, <2>4 DEF Redirect, RunType
    <3>2. run.complete \in BOOLEAN
      BY <2>1 DEF RunType
    <3> QED BY <3>1, <3>2
  <2>5. ASSUME NEW s \in Requests, ReadBody(s)
        PROVE  run' = run
    BY <2>5 DEF ReadBody, stateVars
  <2> QED BY <2>2, <2>3, <2>4, <2>5
<1>6. LoggedUp(r)'
  BY <1>1, <1>2, <1>5, SameLoggedUp
<1>7. \A s \in Requests : ctx'[s].stage = ctx[s].stage
  <2>1. ctx \in [Requests -> Context]
    BY DEF TypeOK
  <2>2. ASSUME NEW s \in Requests, Redirect(s)
        PROVE  \A q \in Requests : ctx'[q].stage = ctx[q].stage
    BY <2>1, <2>2 DEF Redirect, Context
  <2>3. ASSUME NEW s \in Requests, ReadBody(s)
        PROVE  \A q \in Requests : ctx'[q].stage = ctx[q].stage
    <3>1. PICK reading : ctx' = [ctx EXCEPT ![s].read = reading]
      BY <2>3 DEF ReadBody
    <3> QED BY <2>1, <3>1 DEF Context
  <2>4. CASE SetComplete \/ SetClose
    BY <2>4 DEF SetComplete, SetClose, requestVars
  <2> QED BY <2>2, <2>3, <2>4
<1> QED BY <1>1, <1>2, <1>4, <1>5, <1>6, <1>7, SilentLog

(* A chunk of the run ends, well or not.                                   *)
LEMMA AppendLog ==
    ASSUME TypeOK, Kept, LogInv, NEW r \in Requests, run.request = r,
           NEW c \in Chunks, run.next = c,
           NEW e \in Entry, e.request = r, e.hop = hops[r], e.chunk = c,
           log' = Append(log, e), UNCHANGED <<setup, hops>>
    PROVE  /\ log' \in Seq(Entry) /\ InOrder'
           /\ InitFile' # None => log' # <<>> /\ log'[1].chunk = "init"
           /\ \A i \in DOMAIN log' : /\ log'[i].hop <= hops[log'[i].request]
                                     /\ log'[i].hop = hops[log'[i].request] =>
                                           \/ ctx[log'[i].request].stage \notin {"new", "ready"}
                                           \/ log'[i].request = r
<1>1. r # None /\ LoggedUp(r) /\ Held
  BY SetupFacts, RunFacts DEF TypeOK, LogInv, RunLogged
<1>2. /\ log' \in Seq(Entry)
      /\ DOMAIN log' = DOMAIN log \cup {Len(log) + 1}
      /\ Len(log) \in Nat /\ DOMAIN log = 1 .. Len(log)
      /\ \A i \in DOMAIN log : log'[i] = log[i]
      /\ log'[Len(log) + 1] = e
  BY AppendOwn DEF LogInv
<1>3. \A i \in DOMAIN log : log[i].result >= 0
  BY <1>1, NoErrorYet
<1>4. c = "init" => log = <<>>
  BY <1>1 DEF LoggedUp
<1>5. \A i \in DOMAIN log : log[i].request = r /\ log[i].hop = hops[r] =>
         /\ Rank(log[i].chunk) < Rank(c)
         /\ c = "main" => ~log[i].complete
  <2>1. c = "main" => ~run.complete
    BY <1>1 DEF Held
  <2> QED BY <1>1, <2>1 DEF LoggedUp, Own, NextRank, Chunks
<1>6. InOrder'
  <2>1. ASSUME NEW i \in DOMAIN log', NEW j \in DOMAIN log', i < j
        PROVE  /\ log'[i].result >= 0
               /\ log'[j].chunk # "init"
               /\ log'[i].request = log'[j].request /\ log'[i].hop = log'[j].hop =>
                     /\ Rank(log'[i].chunk) < Rank(log'[j].chunk)
                     /\ log'[j].chunk = "main" => ~log'[i].complete
    <3>1. i \in DOMAIN log /\ log'[i] = log[i]
      BY <1>2, <2>1
    <3>2. CASE j \in DOMAIN log
      BY <1>2, <2>1, <3>1, <3>2 DEF LogInv, InOrder
    <3>3. CASE j = Len(log) + 1
      <4>1. c # "init"
        BY <1>2, <1>4, <3>1
      <4> QED BY <1>2, <1>3, <1>5, <3>1, <3>3, <4>1
    <3> QED BY <1>2, <3>2, <3>3
  <2> QED BY <2>1 DEF InOrder
<1>7. InitFile' # None => log' # <<>> /\ log'[1].chunk = "init"
  <2>1. CASE c = "init"
    BY <1>2, <1>4, <2>1
  <2>2. CASE c # "init" /\ InitFile # None
    <3>1. log # <<>> /\ log[1].chunk = "init"
      BY <1>1, <2>2 DEF LogInv, Begins, Held
    <3>2. 1 \in DOMAIN log
      BY <3>1 DEF LogInv
    <3> QED BY <1>2, <3>1, <3>2
  <2> QED BY <2>1, <2>2 DEF InitFile
<1>8. ASSUME NEW i \in DOMAIN log'
      PROVE  /\ log'[i].hop <= hops[log'[i].request]
             /\ log'[i].hop = hops[log'[i].request] =>
                   \/ ctx[log'[i].request].stage \notin {"new", "ready"}
                   \/ log'[i].request = r
  <2>1. CASE i \in DOMAIN log
    BY <1>2, <2>1 DEF LogInv, Unlogged
  <2>2. CASE i = Len(log) + 1
    <3>1. e.hop <= hops[e.request]
      BY DEF Entry
    <3> QED BY <1>2, <2>2, <3>1
  <2> QED BY <1>2, <2>1, <2>2
<1> QED BY <1>2, <1>6, <1>7, <1>8

LEMMA ErrorLog ==
    ASSUME TypeOK, Kept, LogInv, NEW c \in Chunks, LoadFails(c) \/ Errs(c)
    PROVE  LogInv'
<1> PICK r \in Someone : r = run.request
  BY DEF Kept, RequestTypes, RunType
<1> DEFINE e == [request |-> r, hop |-> hops[r], chunk |-> c, result |-> -1,
                 complete |-> run.complete]
<1>1. /\ r # None /\ r \in Requests /\ run.next = c
      /\ Fail(L, r) /\ UNCHANGED <<setup, hops>>
  <2>1. run.request # None
    BY SetupFacts DEF LoadFails, Errs, ComesTo, Kept, RunOK, NoRun, TypeOK
  <2>2. run.next = c
    BY <2>1, RunFacts, SetupFacts DEF LoadFails, Errs, ComesTo, Held, TypeOK
  <2>3. Fail(L, r) /\ UNCHANGED <<setup, hops>>
    BY DEF LoadFails, Errs
  <2> QED BY <2>1, <2>2, <2>3, RunFacts
<1>2. log' = Append(log, e)
  BY DEF LoadFails, Errs, Logged
<1>3. e \in Entry
  <2>1. hops[r] \in Nat
    BY <1>1, SetupFacts DEF TypeOK
  <2>2. run.complete \in BOOLEAN
    BY DEF TypeOK
  <2> QED BY <1>1, <2>1, <2>2 DEF Entry
<1>4. e.request = r /\ e.hop = hops[r] /\ e.chunk = c /\ e.result = -1
  OBVIOUS
<1> HIDE DEF e
<1>5. /\ log' \in Seq(Entry) /\ InOrder'
      /\ InitFile' # None => log' # <<>> /\ log'[1].chunk = "init"
      /\ \A i \in DOMAIN log' : /\ log'[i].hop <= hops[log'[i].request]
                                /\ log'[i].hop = hops[log'[i].request] =>
                                      \/ ctx[log'[i].request].stage \notin {"new", "ready"}
                                      \/ log'[i].request = r
  BY <1>1, <1>2, <1>3, <1>4, AppendLog
<1>6. \E i \in Own(r)' : log'[i].result = -1
  <2>1. Own(r)' = Own(r) \cup {Len(log) + 1} /\ log'[Len(log) + 1] = e
    BY <1>1, <1>2, <1>3, <1>4, AppendOwn DEF LogInv
  <2> QED BY <1>4, <2>1
<1>7. Begins'
  <2>1. L'.open
    BY <1>1, RunFacts DEF Fail, StateType, Held
  <2> QED BY <1>5, <2>1 DEF Begins
<1>8. L \in StateType /\ Holders \subseteq {r}
  BY <1>1, RunFacts
<1> QED BY <1>1, <1>5, <1>6, <1>7, <1>8, FailLog

LEMMA EndsLog ==
    ASSUME TypeOK, Kept, LogInv, NEW c \in Chunks, NEW result \in Results, Ends(c, result)
    PROVE  LogInv'
<1> PICK r \in Someone : r = run.request
  BY DEF Kept, RequestTypes, RunType
<1> DEFINE done == Completes(c, result)
           value == IF c \in {"init", "post"} /\ result > 0 THEN 0 ELSE result
           e == [request |-> r, hop |-> hops[r], chunk |-> c, result |-> value, complete |-> done]
<1>1. /\ r # None /\ r \in Requests /\ run.next = c /\ run.chunk = c
      /\ UNCHANGED <<setup, ctx, hops>>
  <2>1. run.request # None
    BY SetupFacts DEF Ends, Kept, RunOK, NoRun, TypeOK
  <2> QED BY <2>1, RunFacts, SetupFacts DEF Ends, Held, TypeOK, requestVars
<1>2. log' = Append(log, e)
  BY DEF Ends, Logged
<1>3. e \in Entry
  <2>1. hops[r] \in Nat
    BY <1>1, SetupFacts DEF TypeOK
  <2>2. done \in BOOLEAN
    BY DEF TypeOK, Completes
  <2>3. value \in Results
    BY DEF Results
  <2> QED BY <1>1, <2>1, <2>2, <2>3 DEF Entry
<1>4. /\ e.request = r /\ e.hop = hops[r] /\ e.chunk = c
      /\ e.complete = done /\ e.result = value
  OBVIOUS
<1>5. value >= 0 /\ value \in Int /\ (c \in {"pre", "main"} => value = result)
  BY DEF Results
<1> HIDE DEF e, value
<1>6. /\ log' \in Seq(Entry) /\ InOrder'
      /\ InitFile' # None => log' # <<>> /\ log'[1].chunk = "init"
      /\ \A i \in DOMAIN log' : /\ log'[i].hop <= hops[log'[i].request]
                                /\ log'[i].hop = hops[log'[i].request] =>
                                      \/ ctx[log'[i].request].stage \notin {"new", "ready"}
                                      \/ log'[i].request = r
  BY <1>1, <1>2, <1>3, <1>4, AppendLog
<1>7. /\ DOMAIN log' = DOMAIN log \cup {Len(log) + 1}
      /\ \A i \in DOMAIN log : log'[i] = log[i]
      /\ log'[Len(log) + 1] = e
      /\ Own(r)' = Own(r) \cup {Len(log) + 1}
      /\ Own(r) \subseteq DOMAIN log
      /\ \A d : RunOf(r, d)' <=> RunOf(r, d) \/ c = d
      /\ c \in {"pre", "main"} => Asked(r)' = Asked(r) \cup ({result} \ {0})
      /\ c \notin {"pre", "main"} => Asked(r)' = Asked(r)
  BY <1>1, <1>2, <1>3, <1>4, <1>5, AppendOwn DEF LogInv
<1>8. L'.open /\ run'.request = r
  <2>1. L'.open
    BY <1>1, RunFacts DEF Ends, StateType, Held
  <2> QED BY <2>1, <1>1, RunFacts DEF Ends, RunType
<1>9. Begins'
  BY <1>6, <1>8 DEF Begins
<1>10. NoErrorBehind'
  <2>1. ASSUME NEW i \in DOMAIN log'
        PROVE  ~(log'[i].result < 0)
    <3>1. \A j \in DOMAIN log : ~(log[j].result < 0)
      BY <1>1, NoErrorYet, LogTypes DEF LogInv, Results
    <3>2. ~(e.result < 0)
      BY <1>4, <1>5
    <3> QED BY <1>7, <3>1, <3>2
  <2> QED BY <2>1 DEF NoErrorBehind
<1>11. Unlogged'
  <2>1. ctx[r].stage = "running"
    BY <1>1 DEF Kept, RunOK
  <2> QED BY <1>1, <1>6, <2>1 DEF Unlogged
<1>12. DoneLogged'
  BY <1>1, RunFacts DEF DoneLogged, Holders, Kept, RunOK
<1>13. ASSUME LoggedUp(r)'
       PROVE  LogInv'
  BY <1>6, <1>8, <1>9, <1>10, <1>11, <1>12, <1>13 DEF LogInv, RunLogged
<1> HIDE DEF done
<1>14. /\ run'.next = After(c, done) /\ run'.chunk = None /\ run'.complete = done
       /\ run'.result = IF c \in {"pre", "main"} THEN result ELSE run.result
  BY <1>1, RunFacts DEF Ends, RunType, done
<1>15. LoggedUp(r) /\ (run.complete => c \in {"pre", "post", "end"})
  BY <1>1, RunFacts DEF LogInv, RunLogged, Held
<1>16. \A i \in Own(r) : log[i].chunk \in Chunks /\ log[i].complete \in BOOLEAN
  BY <1>7, LogTypes DEF LogInv
<1>17. /\ PreFile' = PreFile /\ PostFile' = PostFile
       /\ None \notin Chunks /\ run.complete \in BOOLEAN /\ done \in BOOLEAN
  BY <1>1, SetupFacts DEF PreFile, PostFile, TypeOK, done, Completes
<1>18. \A i \in Own(r) : Rank(log[i].chunk) < Rank(c) /\ (log[i].complete => run.complete)
  BY <1>1, <1>15 DEF LoggedUp, NextRank, Chunks
<1>19. \A d \in Chunks : Rank(c) <= Rank(d) => ~RunOf(r, d)
  BY <1>16, <1>18 DEF RunOf, Rank, Chunks
<1>20. run.complete => done
  BY DEF done, Completes
<1>21. \A i \in Own(r)' : /\ Rank(log'[i].chunk) < NextRank(run'.next)
                          /\ log'[i].complete => run'.complete
  <2>1. Rank(c) < NextRank(run'.next) /\ Rank(c) \in 1 .. 4 /\ NextRank(run'.next) \in 1 .. 5
    BY <1>14 DEF Rank, NextRank, After, Chunks
  <2>2. \A i \in Own(r) : Rank(log[i].chunk) \in 1 .. 4
    BY <1>16 DEF Rank, Chunks
  <2>3. ASSUME NEW i \in Own(r)'
        PROVE  Rank(log'[i].chunk) < NextRank(run'.next) /\ (log'[i].complete => done)
    <3>1. CASE i \in Own(r)
      BY <1>7, <1>18, <1>20, <2>1, <2>2, <3>1
    <3>2. CASE i = Len(log) + 1
      BY <1>4, <1>7, <2>1, <3>2
    <3> QED BY <1>7, <2>3, <3>1, <3>2
  <2> QED BY <1>14, <2>3
<1>22. \E i \in Own(r)' : log'[i].complete = done
  BY <1>4, <1>7
<1>23. CASE c = "init"
  <2>1. ~done /\ run'.next = "pre"
    BY <1>14, <1>15, <1>17, <1>23 DEF done, Completes, After
  <2>2. Asked(r)' = {run'.result} \ {0} /\ run'.result = 0
    BY <1>1, <1>7, <1>14, <1>15, <1>23 DEF LoggedUp
  <2>3. LoggedUp(r)'
    BY <1>14, <1>17, <1>21, <1>23, <2>1, <2>2 DEF LoggedUp, NextRank, Rank, Chunks
  <2> QED BY <1>13, <2>3
<1>24. CASE c = "pre"
  <2>1. run'.next = IF done THEN "post" ELSE "main"
    BY <1>14, <1>24 DEF After
  <2>2. Asked(r)' = {run'.result} \ {0} /\ (~done => run'.result = 0)
    <3>1. Asked(r) = {}
      BY <1>1, <1>15, <1>24 DEF LoggedUp
    <3>2. ~done => result = 0
      BY <1>24 DEF done, Completes, Results
    <3> QED BY <1>7, <1>14, <1>24, <3>1, <3>2
  <2>3. /\ RunOf(r, "pre")' /\ PreFile # None /\ ~RunOf(r, "main")'
    BY <1>1, <1>7, <1>15, <1>19, <1>24 DEF LoggedUp, Rank, Chunks
  <2>4. LoggedUp(r)'
    BY <1>14, <1>17, <1>21, <1>22, <1>24, <2>1, <2>2, <2>3
    DEF LoggedUp, NextRank, Rank, Chunks
  <2> QED BY <1>13, <2>4
<1>25. CASE c = "main"
  <2>1. run'.next = "post" /\ ~done
    BY <1>14, <1>15, <1>17, <1>25 DEF After, done, Completes
  <2>2. Asked(r)' = {run'.result} \ {0}
    <3>1. Asked(r) = {}
      BY <1>1, <1>15, <1>25 DEF LoggedUp
    <3> QED BY <1>7, <1>14, <1>25, <3>1
  <2>3. RunOf(r, "main")' /\ (RunOf(r, "pre")' <=> PreFile # None)
    BY <1>1, <1>7, <1>15, <1>25 DEF LoggedUp
  <2>4. LoggedUp(r)'
    BY <1>14, <1>17, <1>21, <1>22, <1>25, <2>1, <2>2, <2>3
    DEF LoggedUp, NextRank, Rank, Chunks
  <2> QED BY <1>13, <2>4
<1>26. CASE c = "post"
  <2>1. run'.next = "end" /\ (done <=> run.complete)
    BY <1>14, <1>17, <1>26 DEF After, done, Completes
  <2>2. Asked(r)' = {run'.result} \ {0}
    BY <1>1, <1>7, <1>14, <1>15, <1>26 DEF LoggedUp
  <2>3. /\ RunOf(r, "main")' <=> ~run.complete
        /\ RunOf(r, "pre")' <=> PreFile # None
        /\ RunOf(r, "post")' /\ PostFile # None
    BY <1>1, <1>7, <1>15, <1>26 DEF LoggedUp
  <2>4. done => \E i \in Own(r)' : log'[i].complete
    BY <1>1, <1>7, <1>15, <1>26, <2>1 DEF LoggedUp
  <2>5. LoggedUp(r)'
    BY <1>14, <1>17, <1>21, <1>26, <2>1, <2>2, <2>3, <2>4
    DEF LoggedUp, NextRank, Rank, Chunks
  <2> QED BY <1>13, <2>5
<1> QED BY <1>23, <1>24, <1>25, <1>26 DEF Chunks

LEMMA FinishLog ==
    ASSUME TypeOK, Kept, LogInv, Finish
    PROVE  LogInv'
<1> PICK r \in Someone : r = run.request
  BY DEF Kept, RequestTypes, RunType
<1>1. /\ ComesTo("end") /\ r # None /\ run.next = "end" /\ UNCHANGED <<setup, hops, log>>
  BY DEF Finish, ComesTo
<1>2. r \in Requests /\ LoggedUp(r)
  BY <1>1, RunFacts DEF LogInv, RunLogged
<1>3. log' \in Seq(Entry) /\ InOrder'
  BY <1>1, SameLog
<1>4. \A i \in DOMAIN log : /\ log[i].result >= 0 /\ ~(log[i].result < 0)
                            /\ log[i].complete \in BOOLEAN
  BY <1>1, NoErrorYet, LogTypes DEF LogInv, Results
<1>5. /\ Own(r)' = Own(r) /\ Asked(r)' = Asked(r)
      /\ \A d : RunOf(r, d)' <=> RunOf(r, d)
      /\ PreFile' = PreFile /\ PostFile' = PostFile /\ Own(r) \subseteq DOMAIN log
  <2>1. PreFile' = PreFile /\ PostFile' = PostFile /\ Own(r) \subseteq DOMAIN log
    BY <1>1 DEF PreFile, PostFile, Own
  <2> QED BY <1>1, <2>1, SameOwn
<1>6. /\ Cleared(L) \in StateType /\ Cleared(L).open /\ Holders \subseteq {r}
      /\ Cleared(L).init /\ L.init
  BY <1>1, RunFacts, ClearedOK DEF Held
<1>7. ASSUME L'.open
      PROVE  Begins'
  BY <1>1, <1>6, <1>7 DEF LogInv, Begins, InitFile
<1>8. CASE MayFail("profiler") /\ Fail(Cleared(L), r)
  <2>1. L'.open
    BY <1>6, <1>8 DEF Fail, StateType
  <2>2. \A i \in DOMAIN log' :
           /\ log'[i].hop <= hops[log'[i].request]
           /\ log'[i].hop = hops[log'[i].request] =>
                 ctx[log'[i].request].stage \notin {"new", "ready"} \/ log'[i].request = r
    BY <1>1 DEF LogInv, Unlogged
  <2>3. L \in StateType
    BY DEF Kept, RequestTypes
  <2> HIDE DEF Cleared
  <2> QED BY <1>1, <1>2, <1>3, <1>6, <1>7, <1>8, <2>1, <2>2, <2>3, FailLog
<1>9. CASE /\ L' = [Cleared(L) EXCEPT !.current = None]
           /\ run' = NoRun
           /\ ctx' = [ctx EXCEPT ![r].stage = "done", ![r].rc = run.result]
  <2>1. L'.open
    BY <1>6, <1>9 DEF StateType
  <2>2. NoErrorBehind'
    BY <1>1, <1>4 DEF NoErrorBehind
  <2>3. /\ ctx'[r].stage = "done" /\ ctx'[r].rc = run.result /\ run.result \in Results
        /\ \A s \in Requests \ {r} : ctx'[s] = ctx[s] /\ ctx[s].stage # "done"
    BY <1>2, <1>6, <1>9 DEF TypeOK, Context, Holders
  <2>4. Unlogged'
    BY <1>1, <2>3, LogTypes DEF LogInv, Unlogged
  <2>5. RunLogged'
    BY <1>9 DEF RunLogged, NoRun
  <2>6. EndedWell(r)'
    <3>1. Asked(r)' = {ctx'[r].rc} \ {0}
      BY <1>2, <1>5, <2>3 DEF LoggedUp
    <3>2. /\ RunOf(r, "pre") <=> PreFile # None
          /\ RunOf(r, "post") <=> PostFile # None
      BY <1>1, <1>2 DEF LoggedUp
    <3>3. RunOf(r, "main") <=> \A i \in Own(r) : ~log[i].complete
      BY <1>1, <1>2, <1>4, <1>5 DEF LoggedUp
    <3>4. RunOf(r, "main")' <=> \A i \in Own(r)' : ~log'[i].complete
      BY <1>1, <1>5, <3>3
    <3>5. \A i \in DOMAIN log' : log'[i].result >= 0
      BY <1>1, <1>4
    <3> QED BY <1>5, <3>1, <3>2, <3>4, <3>5 DEF EndedWell
  <2>7. DoneLogged'
    <3>1. ctx'[r].rc >= 0
      BY <2>3 DEF Results
    <3> QED BY <2>3, <2>6, <3>1 DEF DoneLogged
  <2> QED BY <1>3, <1>7, <2>1, <2>2, <2>4, <2>5, <2>7 DEF LogInv
<1> QED BY <1>8, <1>9 DEF Finish

LEMMA FinalizationLog ==
    ASSUME TypeOK, Kept, LogInv, NEW r \in Requests, Finalization(r)
    PROVE  LogInv'
<1>1. /\ ctx[r].stage = "done" /\ r \in Holders
      /\ UNCHANGED <<setup, unread, run, log>> /\ L' = ReleasedState
  BY DEF Finalization, Holders
<1>2. Holders = {r} /\ run.request = None
  BY <1>1, SetupFacts DEF Kept, OneHolder, Holders, RunOK, RequestTypes, RunType, Someone, TypeOK
<1>3. log' \in Seq(Entry) /\ InOrder'
  BY <1>1, SameLog
<1>4. L' = NewState \/ (L' = L /\ ~L.close)
  BY <1>1 DEF ReleasedState
<1>5. NewState.init = FALSE /\ NewState.open = FALSE
  BY DEF NewState
<1>6. Begins'
  BY <1>1, <1>4, <1>5 DEF LogInv, Begins, InitFile
<1>7. NoErrorBehind'
  BY <1>1, <1>4, <1>5 DEF LogInv, NoErrorBehind
<1>8. RunLogged'
  BY <1>1, <1>2 DEF RunLogged
<1>9. \A s \in Requests \ {r} : ctx'[s] = ctx[s] /\ hops'[s] = hops[s] /\ ctx[s].stage # "done"
  BY <1>2 DEF Finalization, Redirected, TypeOK, Holders
<1>10. \A c, status : Answered(c, status).stage = "over"
  BY DEF Answered, NewContext
<1>11. \/ ctx'[r].stage = "over" /\ hops'[r] = hops[r]
       \/ ctx'[r] = NewContext /\ hops'[r] = hops[r] + 1
  BY <1>10 DEF Finalization, Redirected, TypeOK
<1>12. ctx'[r].stage # "done"
  BY <1>11, NewContextOK
<1>13. DoneLogged'
  BY <1>9, <1>12 DEF DoneLogged
<1>14. Unlogged'
  <2>1. hops[r] \in Nat
    BY SetupFacts DEF TypeOK
  <2>2. ASSUME NEW i \in DOMAIN log
        PROVE  /\ log[i].hop <= hops'[log[i].request]
               /\ log[i].hop = hops'[log[i].request] =>
                     ctx'[log[i].request].stage \notin {"new", "ready"}
    <3>1. /\ log[i].hop \in Nat /\ log[i].request \in Requests
          /\ log[i].hop <= hops[log[i].request]
          /\ log[i].hop = hops[log[i].request] =>
                ctx[log[i].request].stage \notin {"new", "ready"}
      BY LogTypes DEF LogInv, Unlogged
    <3>2. CASE log[i].request = r
      BY <1>11, <2>1, <3>1, <3>2
    <3>3. CASE log[i].request # r
      BY <1>9, <3>1, <3>3
    <3> QED BY <3>2, <3>3
  <2> QED BY <1>1, <2>2 DEF Unlogged
<1> QED BY <1>3, <1>6, <1>7, <1>8, <1>13, <1>14 DEF LogInv

LEMMA CloseIdleLog ==
    ASSUME TypeOK, Kept, LogInv, CloseIdle
    PROVE  LogInv'
<1>1. /\ Holders = {} /\ L' = NewState /\ ~NewState.init /\ ~NewState.open
      /\ UNCHANGED <<setup, ctx, hops, run, log>>
  BY DEF CloseIdle, IsFree, Holders, requestVars, NewState
<1>2. run.request = None
  BY <1>1 DEF Kept, RunOK, Holders, RequestTypes, RunType, Someone
<1>3. log' \in Seq(Entry) /\ InOrder'
  BY <1>1, SameLog
<1>4. Begins' /\ NoErrorBehind'
  BY <1>1 DEF LogInv, Begins, InitFile, NoErrorBehind
<1>5. Unlogged' /\ RunLogged' /\ DoneLogged'
  BY <1>1, <1>2 DEF LogInv, Unlogged, RunLogged, DoneLogged, Holders
<1> QED BY <1>3, <1>4, <1>5 DEF LogInv

LEMMA HandlerLog ==
    ASSUME TypeOK, LogInv, NEW r \in Requests, Handler(r)
    PROVE  LogInv'
<1>1. /\ ctx[r].stage = "new" /\ UNCHANGED <<setup, hops, L, run, log>>
      /\ ctx \in [Requests -> Context]
  BY DEF Handler, stateVars, TypeOK
<1>2. PICK f \in MainFiles :
        \/ ctx' = [ctx EXCEPT ![r] = Answered(Chosen(r, f), 404)]
        \/ ctx' = [ctx EXCEPT ![r] = Answered(Chosen(r, f), 500)]
        \/ ctx' = [ctx EXCEPT ![r] = LetIn(Chosen(r, f))]
  BY DEF Handler
<1>3. LetIn(Chosen(r, f)).stage = "ready"
  BY <1>1 DEF Chosen, LetIn, Context
<1>4. \A c, status : Answered(c, status).stage = "over"
  BY DEF Answered, NewContext
<1>5. /\ ctx'[r].stage # "done"
      /\ \A s \in Requests \ {r} : ctx'[s] = ctx[s]
  <2> HIDE DEF Chosen
  <2> QED BY <1>1, <1>2, <1>3, <1>4
<1> QED BY <1>1, <1>5, LogStutter

LEMMA NextLog == TypeOK /\ Kept /\ LogInv /\ [Next]_vars => LogInv'
<1> SUFFICES ASSUME TypeOK, Kept, LogInv, [Next]_vars
             PROVE  LogInv'
  OBVIOUS
<1>1. ASSUME NEW r \in Requests, Request(r)
      PROVE  LogInv'
  BY <1>1, HandlerLog, StartLog, LibraryLog, FinalizationLog DEF Request
<1>2. ASSUME NEW c \in Chunks, Chunk(c)
      PROVE  LogInv'
  BY <1>2, SkipLog, CallLog, ErrorLog, EndsLog DEF Chunk
<1>3. CASE Finish \/ SetComplete \/ SetClose \/ CloseIdle
  BY <1>3, FinishLog, LibraryLog, CloseIdleLog
<1>4. CASE Tick \/ AllAnswered \/ UNCHANGED vars \/ \E f \in MainFiles : ComeOrGo(f)
  <2>1. UNCHANGED <<setup, requestVars, stateVars>>
    BY <1>4 DEF Tick, ComeOrGo, AllAnswered, vars
  <2> QED BY <2>1, LogStutter DEF requestVars, stateVars
<1> QED BY <1>1, <1>2, <1>3, <1>4 DEF Next

(* All of it is inductive.                                                 *)
WholeInv == RInv /\ LogInv /\ SeenOK /\ NewIsNew

LEMMA InitWhole == Init => WholeInv
<1> SUFFICES ASSUME Init PROVE WholeInv
  OBVIOUS
<1>1. NewIsNew
  BY DEF Init, NewIsNew
<1> QED BY <1>1, InitRInv, InitLog, InitSeen DEF WholeInv

LEMMA NextWhole == WholeInv /\ [Next]_vars => WholeInv'
<1> SUFFICES ASSUME WholeInv, [Next]_vars PROVE WholeInv'
  OBVIOUS
<1>1. TypeOK /\ Kept
  BY TypesSplit DEF WholeInv, RInv, Kept
<1> QED BY <1>1, NextRInv, NextLog, NextSeen, NextIsNew DEF WholeInv

-------------------------------------------------------------------------------
(* Every variable of the model of lws_run keeps its type; in particular,   *)
(* the cache of file states keeps to the cap of lws_stat_cache.            *)
THEOREM RunTypeCorrect == Spec => []TypeOK
<1>1. RInv => TypeOK
  BY DEF RInv
<1> QED BY <1>1, InitRInv, NextRInv, PTL DEF Spec

(* What one request leaves behind in a Lua state, no other sees: lws_run   *)
(* clears it, or lws_finalization_handler closes the state.                *)
THEOREM NothingIsLeft == Spec => []NothingLeft
<1>1. RInv => NothingLeft
  <2> SUFFICES ASSUME RInv
               PROVE  NothingLeft
    OBVIOUS
  <2>1. TypeOK /\ Kept
    BY TypesSplit DEF RInv, Kept
  <2>2. CASE run.request # None
    BY <2>1, <2>2, RunFacts DEF NothingLeft, Held
  <2>3. CASE run.request = None /\ Holders = {}
    BY <2>1, <2>3 DEF NothingLeft, Kept, RunOK, NoRun, FreeOK, Clean, NewState
  <2>4. CASE run.request = None /\ Holders # {}
    <3>1. PICK r \in Requests : r \in Holders /\ ctx[r].stage = "done"
      BY <2>1, <2>4, SetupFacts DEF Holders, Kept, RunOK, TypeOK
    <3> QED BY <2>1, <2>4, <3>1 DEF NothingLeft, Kept, RunOK, NoRun, DoneOK
  <2> QED BY <2>2, <2>3, <2>4
<1> QED BY <1>1, InitRInv, NextRInv, PTL DEF Spec

(* The chunks of a Lua state run in the order of lws_run, whatever errors, *)
(* completions and internal redirects there are: init once and first; pre, *)
(* main and post at most once for a request, and no main chunk after a pre *)
(* chunk that completed the request; nothing after an error; and all the   *)
(* chunks that are due for a request that ends well.                       *)
THEOREM ChunksInOrder == Spec => []ChunkOrder
<1>1. WholeInv => ChunkOrder
  <2> SUFFICES ASSUME WholeInv
               PROVE  ChunkOrder
    OBVIOUS
  <2>1. InOrder /\ (InitFile # None /\ log # <<>> => Head(log).chunk = "init")
    BY DEF WholeInv, LogInv, Begins
  <2>2. ASSUME NEW r \in Requests, ctx[r].stage = "done", ctx[r].rc >= 0
        PROVE  EndedWell(r)
    BY <2>2 DEF WholeInv, LogInv, DoneLogged, EndedBadly
  <2> QED BY <2>1, <2>2 DEF ChunkOrder, InOrder, EndedWell
<1> QED BY <1>1, InitWhole, NextWhole, PTL DEF Spec

LEMMA AnswerFrom ==
    ASSUME TypeOK, NEW r \in Requests, Finalization(r)
    PROVE  /\ ctx[r].stage = "done" /\ ctx[r].rc \in Results \cup {-1}
           /\ ctx[r].redirect \in BOOLEAN
           /\ IF ctx[r].rc >= 0 /\ ctx[r].redirect
              THEN ctx'[r].answer \in {0, 500}
              ELSE \/ ctx'[r].answer = StatusOf(ctx[r])
                   \/ MayFail("header") /\ ctx'[r].answer = 500
<1>1. ctx \in [Requests -> Context] /\ ctx[r].stage = "done"
  BY DEF TypeOK, Finalization
<1>2. \A c, status : Answered(c, status).answer = status
  BY DEF Answered, NewContext
<1>3. NewContext.answer = 0
  BY DEF NewContext
<1>4. ctx[r].rc \in Results \cup {-1} /\ ctx[r].redirect \in BOOLEAN
  BY <1>1 DEF Context
<1>5. CASE ctx[r].rc >= 0 /\ ctx[r].redirect
  BY <1>1, <1>2, <1>3, <1>4, <1>5 DEF Finalization, Redirected
<1>6. CASE ~(ctx[r].rc >= 0 /\ ctx[r].redirect)
  BY <1>1, <1>2, <1>4, <1>6 DEF Finalization
<1> QED BY <1>1, <1>4, <1>5, <1>6

(* The answer to a request is what its chunks asked for: 500 if one failed *)
(* (or the profiler, or the header), else the redirect, else the status    *)
(* that the pre or the main chunk returned, if it is one, else 200.        *)
THEOREM AnswersFit == Spec => AnswerFits
<1>1. ASSUME WholeInv, [Next]_vars, NEW r \in Requests,
             ctx[r].stage = "done", ctx'[r].stage # "done"
      PROVE  Fits(r)
  <2>1. TypeOK /\ Kept
    BY <1>1, TypesSplit, SMTT(40) DEF WholeInv, RInv, Kept
  <2>2. Finalization(r)
    BY <1>1, <2>1, ContextSteps DEF Handler, Start
  <2>3. /\ ctx[r].rc \in Results \cup {-1} /\ ctx[r].redirect \in BOOLEAN
        /\ IF ctx[r].rc >= 0 /\ ctx[r].redirect
           THEN ctx'[r].answer \in {0, 500}
           ELSE \/ ctx'[r].answer = StatusOf(ctx[r])
                \/ MayFail("header") /\ ctx'[r].answer = 500
    BY <2>1, <2>2, AnswerFrom
  <2>4. CASE EndedBadly(r)
    BY <2>3, <2>4 DEF EndedBadly, Fits, StatusOf
  <2>5. CASE ctx[r].rc >= 0 /\ EndedWell(r)
    <3>1. \A i \in Own(r) : log[i].result # -1
      BY <2>5 DEF EndedWell, Own
    <3>2. Asked(r) = {ctx[r].rc} \ {0}
      BY <2>5 DEF EndedWell
    <3>3. CASE ctx[r].redirect
      BY <2>3, <2>5, <3>1, <3>3 DEF Fits
    <3>4. CASE ~ctx[r].redirect
      <4>1. CASE MayFail("header") /\ ctx'[r].answer = 500
        BY <4>1 DEF Fits
      <4>2. CASE ctx'[r].answer = StatusOf(ctx[r])
        <5>1. \/ ctx[r].rc = 0 /\ StatusOf(ctx[r]) = 200
              \/ ctx[r].rc = 403 /\ StatusOf(ctx[r]) = 403
              \/ ctx[r].rc = 600 /\ StatusOf(ctx[r]) = 500
          BY <2>3, <2>5 DEF Results, StatusOf, StatusFor
        <5>2. \/ Asked(r) = {} /\ ctx'[r].answer = 200
              \/ Asked(r) = {403} /\ ctx'[r].answer = 403
              \/ Asked(r) = {600} /\ ctx'[r].answer = 500
          BY <3>2, <4>2, <5>1
        <5> QED BY <3>1, <3>4, <5>2 DEF Fits
      <4> QED BY <2>3, <3>4, <4>1, <4>2
    <3> QED BY <2>3, <3>3, <3>4
  <2> QED BY <1>1, <2>4, <2>5 DEF WholeInv, LogInv, DoneLogged
<1>2. WholeInv /\ [Next]_vars =>
        [\A r \in Requests : ctx[r].stage = "done" /\ ctx'[r].stage # "done" => Fits(r)]_vars
  BY <1>1
<1> QED BY <1>2, InitWhole, NextWhole, PTL DEF Spec, AnswerFits

(* lws_handler lets a request in, or answers 404, on a status of its main  *)
(* file that was true less than the timeout of lws_stat_cache ago.         *)
THEOREM StatusFresh == Spec => StatFresh
<1> DEFINE Fresh(r) ==
        LET s == seen[ctx'[r].main]
            when == IF ctx'[r].answer = 404 THEN s.missing ELSE s.there
        IN  when = now \/ when + Timeout > now
<1>1. ASSUME WholeInv, [Next]_vars, NEW r \in Requests,
             ctx[r].stage = "new", ctx'[r].stage # "new"
      PROVE  Fresh(r)
  <2>1. TypeOK /\ Kept /\ SeenOK /\ ctx[r] = NewContext
    BY <1>1, TypesSplit, SMTT(40) DEF WholeInv, RInv, Kept, NewIsNew
  <2>2. Handler(r)
    BY <1>1, <2>1, ContextSteps DEF Start, Finalization
  <2>3. PICK f \in MainFiles :
          \/ ~IsFound(f) /\ ctx' = [ctx EXCEPT ![r] = Answered(Chosen(r, f), 404)]
          \/ IsFound(f) /\ ctx' = [ctx EXCEPT ![r] = Answered(Chosen(r, f), 500)]
          \/ IsFound(f) /\ ctx' = [ctx EXCEPT ![r] = LetIn(Chosen(r, f))]
    BY <2>2 DEF Handler
  <2>4. Chosen(r, f).main = f /\ LetIn(Chosen(r, f)).main = f /\ LetIn(Chosen(r, f)).answer = 0
    <3>1. NewContext.answer = 0
      BY DEF NewContext
    <3>2. ctx[r] \in Context /\ ctx[r].answer = 0
      BY <2>1, <3>1, NewContextOK
    <3> QED BY <3>2 DEF Chosen, LetIn, Context
  <2>5. \A c, status : Answered(c, status).main = c.main /\ Answered(c, status).answer = status
    BY DEF Answered, NewContext
  <2>6. ctx'[r].main = f /\ (ctx'[r].answer = 404 <=> ~IsFound(f))
    <3> HIDE DEF Chosen
    <3> QED BY <2>1, <2>3, <2>4, <2>5 DEF TypeOK
  <2>7. LET when == IF IsFound(f) THEN seen[f].there ELSE seen[f].missing
        IN  when = now \/ when + Timeout > now
    BY <2>1, StatusIsFresh
  <2> QED BY <2>6, <2>7
<1>2. WholeInv /\ [Next]_vars =>
        [\A r \in Requests : ctx[r].stage = "new" /\ ctx'[r].stage # "new" => Fresh(r)]_vars
  BY <1>1
<1> QED BY <1>2, InitWhole, NextWhole, PTL DEF Spec, StatFresh
===============================================================================
