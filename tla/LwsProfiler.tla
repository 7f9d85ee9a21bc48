------------------------------ MODULE LwsProfiler ------------------------------
(***************************************************************************)
(* The profiler of lws_profiler.c in one Lua state, and the list of        *)
(* functions in the monitor that its results are merged into.  Lua calls   *)
(* the profiler's hook when a function is called or returns, but not when  *)
(* an error unwinds the functions up to a pcall.  So the profiler's stack  *)
(* is a copy of Lua's own, `frames', that an error leaves behind.          *)
(*                                                                         *)
(* A hook takes no time here; the time that passes between hooks is what   *)
(* the profiler is to account for.  The memory of a function, kept like    *)
(* its self time, is left out, and so are the tail returns of Lua 5.1.     *)
(*                                                                         *)
(* A definition named X_<Mistake> is X with a plausible mistake in it.  No *)
(* specification uses it; it serves to see that a property depends on X.   *)
(***************************************************************************)
EXTENDS Integers, FiniteSetsExt, SequencesExt

CONSTANTS Functions,   \* the keys that identify functions
          Pcall,       \* that of pcall
          Stopper,     \* that of lws_stop_profiler
          None,        \* no activation record
          NanoMax,     \* the nanoseconds of a second
          Errors,      \* Lua errors happen
          Failures,    \* {"memory"} if allocations may fail, or {}
          MaxDepth,    \* bound: calls within calls
          MaxCalls,    \* bound: the calls in all
          MaxTime,     \* bound: the clock
          MaxRuns      \* bound: the requests that are profiled

ASSUME ProfilerAssumption ==
    /\ {Pcall, Stopper} \subseteq Functions
    /\ None \notin Functions
    /\ NanoMax \in Nat \ {0}
    /\ Errors \in BOOLEAN
    /\ Failures \subseteq {"memory"}
    /\ {MaxDepth, MaxCalls, MaxTime, MaxRuns} \subseteq Nat

VARIABLES
    profiler,  \* the lws_profiler_t: see NewProfiler
    active,    \* the profiler's hook is set
    functions, \* the profiled functions of the monitor, by key
    full,      \* the monitor's out_of_memory
    \* What really happens.
    frames,    \* the functions Lua is in
    now,       \* the clock
    selfTime,  \* the time spent in each function in this run
    fullTime,  \* the same, and in the functions it called
    clean,     \* no error was caught in this run
    merged,    \* what was merged into the monitor since it was cleared
    calls,     \* the calls so far
    runs       \* the requests profiled so far

run == <<selfTime, fullTime, clean>>

vars == <<profiler, active, functions, full, frames, now, run, merged, calls, runs>>

-------------------------------------------------------------------------------
(* Times: seconds and nanoseconds.                                         *)

Timespec == [sec : Nat, nsec : 0 .. NanoMax]

Zero == [sec |-> 0, nsec |-> 0]

Clock == [sec |-> now \div NanoMax, nsec |-> now % NanoMax]

Value(t) == t.sec * NanoMax + t.nsec

Carried(sec, nsec) ==
    IF nsec > NanoMax THEN [sec |-> sec + 1, nsec |-> nsec - NanoMax]
                      ELSE [sec |-> sec, nsec |-> nsec]

(* lws_add_timespec.                                                       *)
Add(base, inc) == Carried(base.sec + inc.sec, base.nsec + inc.nsec)

(* lws_add_timespec_delta.                                                 *)
AddDelta_NoBorrow(base, from, to) ==
    Carried(base.sec + to.sec - from.sec, base.nsec + to.nsec - from.nsec)

AddDelta(base, from, to) ==
    LET sec == base.sec + to.sec - from.sec
        nsec == base.nsec + to.nsec - from.nsec
    IN  IF nsec < 0 THEN [sec |-> sec - 1, nsec |-> nsec + NanoMax]
                    ELSE Carried(sec, nsec)

-------------------------------------------------------------------------------
(* lws_profiler_hook, as operators from profiler to profiler.              *)

(* An activation record.                                                   *)
Record == [depth : Nat, calls : Nat, self_start : Timespec, self : Timespec,
           total_start : Timespec, total : Timespec]

ASSUME RecordAssumption == None \notin Record

NewRecord == [depth |-> 0, calls |-> 0, self_start |-> Zero, self |-> Zero,
              total_start |-> Zero, total |-> Zero]

NewProfiler == [records |-> [f \in Functions |-> None], stack |-> <<>>]

Known(p) == {f \in Functions : p.records[f] # None}

(* The exit from function f: it is charged; if it is left for good, that   *)
(* is, by a return or a tail call, it leaves the stack.                    *)
Charged(r) == [r EXCEPT !.self = AddDelta(@, r.self_start, Clock)]

Left_Always(r) == [r EXCEPT !.depth = @ - 1,
                            !.total = AddDelta(@, r.total_start, Clock)]

Left(r) == IF r.depth = 1
           THEN [r EXCEPT !.depth = 0, !.total = AddDelta(@, r.total_start, Clock)]
           ELSE [r EXCEPT !.depth = @ - 1]

Paused(p) == IF p.stack = <<>> THEN p
             ELSE [p EXCEPT !.records[Last(p.stack)] = Charged(@)]

Exited(p) == IF p.stack = <<>> THEN p
             ELSE [p EXCEPT !.records[Last(p.stack)] = Left(Charged(@)),
                            !.stack = Front(@)]

(* The entry into function f.                                              *)
Created(p, f) == IF f \in Known(p) THEN p ELSE [p EXCEPT !.records[f] = NewRecord]

Started(r) == [r EXCEPT !.self_start = Clock]

Begun_Anew(r) == [Started(r) EXCEPT !.total_start = Clock, !.depth = 1,
                                    !.calls = @ + 1]

Begun(r) == [Started(r) EXCEPT !.total_start = IF r.depth = 0 THEN Clock ELSE @,
                               !.depth = @ + 1,
                               !.calls = @ + 1]

Entered(p, f) == LET c == Created(p, f)
                 IN  [c EXCEPT !.stack = Append(@, f), !.records[f] = Begun(@)]

(* The return to the function that is now on top of the stack.             *)
Resumed(p) == IF p.stack = <<>> THEN p
              ELSE [p EXCEPT !.records[Last(p.stack)] = Started(@)]

-------------------------------------------------------------------------------
NoCounts == [f \in Functions |-> [calls |-> 0, self |-> 0, total |-> 0]]

NoTime == [f \in Functions |-> 0]

Init == /\ profiler = NewProfiler
        /\ active = FALSE
        /\ functions = <<>>
        /\ full = FALSE
        /\ frames = <<>>
        /\ now = 0
        /\ selfTime = NoTime
        /\ fullTime = NoTime
        /\ clean = TRUE
        /\ merged = NoCounts
        /\ calls = 0
        /\ runs = 0

(* The profiler and its hook are gone, with all there was to measure.      *)
Ended == /\ active' = FALSE
         /\ profiler' = NewProfiler
         /\ selfTime' = NoTime
         /\ fullTime' = NoTime
         /\ clean' = TRUE

(* lws_start_profiler, for a request that is to be profiled.               *)
Start == /\ ~active
         /\ runs < MaxRuns
         /\ runs' = runs + 1
         /\ active' = TRUE
         /\ UNCHANGED <<profiler, functions, full, frames, now, run, merged, calls>>

(* Lua runs for a while, or lws_run does between two chunks.               *)
Tick == /\ active
        /\ now < MaxTime
        /\ now' = now + 1
        /\ selfTime' = [f \in Functions |->
              selfTime[f] + IF frames # <<>> /\ f = Last(frames) THEN 1 ELSE 0]
        /\ fullTime' = [f \in Functions |->
              fullTime[f] + IF f \in ToSet(frames) THEN 1 ELSE 0]
        /\ UNCHANGED <<profiler, active, functions, full, frames, clean, merged, calls, runs>>

Call(f) == /\ active
           /\ Len(frames) < MaxDepth
           /\ calls < MaxCalls
           /\ calls' = calls + 1
           /\ frames' = Append(frames, f)
           /\ profiler' = Entered(Paused(profiler), f)
           /\ UNCHANGED <<active, functions, full, now, run, merged, runs>>

(* A tail call is an exit from the calling function.  Neither is a C       *)
(* function such as pcall.                                                 *)
MayTailCall(f) == /\ active
                  /\ frames # <<>>
                  /\ Pcall \notin {f, Last(frames)}

TailCall(f) == /\ MayTailCall(f)
               /\ calls < MaxCalls
               /\ calls' = calls + 1
               /\ frames' = Append(Front(frames), f)
               /\ profiler' = Entered(Exited(profiler), f)
               /\ UNCHANGED <<active, functions, full, now, run, merged, runs>>

Return == /\ active
          /\ frames # <<>>
          /\ frames' = Front(frames)
          /\ profiler' = Resumed(Exited(profiler))
          /\ UNCHANGED <<active, functions, full, now, run, merged, calls, runs>>

(* An error unwinds to the innermost pcall, without a call of the hook; if *)
(* there is none the run ends, the state is closed and with it goes the    *)
(* profiler.                                                               *)
Unwound(p) ==
    LET pcalls == {i \in DOMAIN frames : frames[i] = Pcall}
    IN  IF pcalls = {}
        THEN /\ Ended
             /\ frames' = <<>>
        ELSE /\ profiler' = p
             /\ frames' = SubSeq(frames, 1, Max(pcalls))
             /\ clean' = FALSE
             /\ UNCHANGED <<active, selfTime, fullTime>>

Error == /\ Errors
         /\ active
         /\ frames # <<>>
         /\ Unwound(profiler)
         /\ UNCHANGED <<functions, full, now, merged, calls, runs>>

(* The hook raises an error, for want of memory, on the call of function f:*)
(* the exit is done, the entry is not, but that the record may be made.    *)
HookFails(f) == /\ "memory" \in Failures
                /\ active
                /\ calls < MaxCalls
                /\ calls' = calls + 1
                /\ \/ Unwound(Paused(profiler))
                   \/ Unwound(Created(Paused(profiler), f))
                   \/ MayTailCall(f) /\ Unwound(Exited(profiler))
                   \/ MayTailCall(f) /\ Unwound(Created(Exited(profiler), f))
                /\ UNCHANGED <<functions, full, now, merged, runs>>

(* lws_stop_profiler: itself called, it merges the records into the        *)
(* monitor under the lock: those of the functions listed there, then,      *)
(* until memory runs out, the others.                                      *)
Sum(e, r) == [calls |-> e.calls + r.calls, self |-> Add(e.self, r.self),
              total |-> Add(e.total, r.total)]

Entry(r) == [calls |-> r.calls, self |-> r.self, total |-> r.total]

Unlisted_All(p) == Known(p)

Unlisted(p) == Known(p) \ DOMAIN functions

Listed(p, added) ==
    [f \in DOMAIN functions \cup added |->
        IF f \in added THEN Entry(p.records[f])
        ELSE IF f \in Known(p) THEN Sum(functions[f], p.records[f])
        ELSE functions[f]]

Stop == /\ active
        /\ frames = <<>>
        /\ Ended
        /\ LET p == Entered(Paused(profiler), Stopper)
           IN  /\ \/ /\ ~full
                     /\ functions' = Listed(p, Unlisted(p))
                     /\ UNCHANGED full
                  \/ /\ ~full
                     /\ "memory" \in Failures
                     /\ \E added \in SUBSET Unlisted(p) :
                           /\ added # Unlisted(p)
                           /\ functions' = Listed(p, added)
                     /\ full' = TRUE
                  \/ /\ full
                     /\ functions' = Listed(p, {})
                     /\ UNCHANGED full
               /\ merged' = [f \in Functions |->
                     IF f \notin Known(p) THEN merged[f]
                     ELSE LET r == p.records[f]
                          IN  [calls |-> merged[f].calls + r.calls,
                               self |-> merged[f].self + Value(r.self),
                               total |-> merged[f].total + Value(r.total)]]
        /\ UNCHANGED <<frames, now, calls, runs>>

(* lws_monitor_modification_handler for "functions=[]", in any process.    *)
Clear == /\ functions' = <<>>
         /\ full' = FALSE
         /\ merged' = NoCounts
         /\ UNCHANGED <<profiler, active, frames, now, run, calls, runs>>

Next == \/ Start
        \/ Tick
        \/ \E f \in Functions \ {Stopper} : Call(f) \/ TailCall(f) \/ HookFails(f)
        \/ Return
        \/ Error
        \/ Stop
        \/ Clear

Spec == Init /\ [][Next]_vars

-------------------------------------------------------------------------------
(* Properties.                                                             *)

(* The depth of a record is the number of times it is on the profiler's    *)
(* stack, also after errors that leave the stack behind: the unsigned      *)
(* depth is never decremented below zero (lws_profiler_hook).              *)
DepthsMatch ==
    \A f \in Known(profiler) :
        profiler.records[f].depth =
            Cardinality({i \in DOMAIN profiler.stack : profiler.stack[i] = f})

(* In a run without caught errors the profiler's stack is Lua's, and self  *)
(* time is the time spent in the function per se, total time that spent in *)
(* it and in what it called, each moment counted once however often the    *)
(* function is active (doc/Monitor.md:77-83); and times stay times, with a *)
(* part of a second, whatever is added to them, also after errors.         *)
Running(f) == active /\ profiler.stack # <<>> /\ Last(profiler.stack) = f

SelfOf(f) == LET r == profiler.records[f]
             IN  Value(r.self) + IF Running(f) THEN now - Value(r.self_start) ELSE 0

TotalOf(f) == LET r == profiler.records[f]
              IN  Value(r.total) + IF r.depth > 0 THEN now - Value(r.total_start) ELSE 0

TimesTrue ==
    /\ active /\ clean => /\ profiler.stack = frames
                          /\ \A f \in Known(profiler) : /\ SelfOf(f) = selfTime[f]
                                                        /\ TotalOf(f) = fullTime[f]
    /\ \A f \in Known(profiler) :
          {profiler.records[f].self, profiler.records[f].total} \subseteq Timespec
    /\ \A f \in DOMAIN functions : {functions[f].self, functions[f].total} \subseteq Timespec

(* The list in the monitor adds up the runs that ended since it was        *)
(* cleared: an entry loses no run and counts none twice, even if memory    *)
(* ran out; and unless it did, no function is missing.                     *)
MonitorAddsUp ==
    /\ \A f \in DOMAIN functions :
          LET e == functions[f]
          IN  [calls |-> e.calls, self |-> Value(e.self), total |-> Value(e.total)]
                  = merged[f]
    /\ ~full => \A f \in Functions : merged[f].calls > 0 => f \in DOMAIN functions

(* Once all functions have returned, the total time of each is "the time   *)
(* spent in child functions" and in itself (doc/Monitor.md:77-78).         *)
TotalIsTime ==
    active /\ frames = <<>> =>
        \A f \in Known(profiler) : Value(profiler.records[f].total) = fullTime[f]
===============================================================================
