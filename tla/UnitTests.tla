----------------------------- MODULE UnitTests ------------------------------
(***************************************************************************)
(* The scripts of TestScripts, replayed: the calls that a test makes are   *)
(* the actions of the other modules, step by step, and an assertion is     *)
(* looked at when its turn comes.                                          *)
(***************************************************************************)
EXTENDS TestScripts

LOCAL INSTANCE SequencesExt
LOCAL INSTANCE TLC

CONSTANT Suite          \* the tests to replay, by name

VARIABLES test,         \* the test that runs
          line,         \* the entry of its script that is next
          var,          \* the variables of the test: what alloc has returned
          result        \* what collect has returned

testVars == <<all, test, line, var, result>>

Vars == {"a", "b", "c", "d", "e", "f", "g", "h", "_"}

Script == Suite[test].script
Entry  == Script[line]
Caller == Script[line - 1]      \* while a call runs, the entry that made it

TestInit ==
    /\ test \in DOMAIN Suite
    /\ Fresh(Suite[test].memsiz) /\ Unused /\ Idle
    /\ sort = Suite[test].sort /\ kind = Suite[test].kind
    /\ globalpList = "this" /\ missed = FALSE
    /\ line = 1 /\ result = 0
    /\ var = [x \in Vars |-> NULL]

----------------------------------------------------------------------------
(* The calls. *)

\* sizeof, on a machine with 64 bits.
Sizeof == [c \in {"*", "l", "d"} |-> 8] @@ [c \in {"i", "f"} |-> 4] @@ [c \in {"c"} |-> 1]

\* Mutant: a letter that means nothing counts as a byte.
FormatSizeAny(fmt) ==
    FoldSeq(LAMBDA c, n : n + (IF c \in DOMAIN Sizeof THEN Sizeof[c] ELSE 1), 0, fmt)

\* What a format adds up to; a letter that means nothing adds nothing.
FormatSize(fmt) ==
    FoldSeq(LAMBDA c, n : n + (IF c \in DOMAIN Sizeof THEN Sizeof[c] ELSE 0), 0, fmt)

Makes(op) == pc = "client" /\ line <= Len(Script) /\ Entry[1] = op

Variable == var[Entry[2]]       \* the first operand of an entry

\* Position k of the list, as the tests count.
At(k) == LET Back[i \in 1 .. 3] == IF i = 1 THEN last ELSE prev[Back[i - 1]]
         IN  IF k < 0 THEN Back[-k] ELSE Walk[k]

\* alloc, or gc.alloc with a format; its result is assigned when it is known.
TestAlloc ==
    /\ \/ Makes("alloc") /\ AllocInt(Entry[3]) /\ UNCHANGED gc
       \/ /\ Makes("format") /\ Collects(kind) /\ AllocInt(FormatSize(Entry[3]))
          /\ typed' = (pc' = "find") /\ UNCHANGED <<count, visits, before>>
    /\ var' = [var EXCEPT ![Entry[2]] = NULL]
    /\ UNCHANGED <<program, frames>>

TestFree ==
    /\ Makes("free") /\ FreeMem(Variable)
    /\ handles' = [p \in Addr |-> IF p = Variable THEN 0 ELSE handles[p]]
    /\ UNCHANGED <<data, target, frames, gc, var>>

\* A pointer that is stored takes the reference of the variable with it.
TestCount ==
    /\ \/ Makes("retain") /\ RetainHeld(Variable)
       \/ Makes("release") /\ ReleaseHeld(Variable)
       \/ /\ Makes("point")
          /\ data' = [data EXCEPT ![Variable] = var[Entry[3]]]
          /\ target' = [target EXCEPT ![Variable] = var[Entry[3]]]
          /\ handles' = [handles EXCEPT ![var[Entry[3]]] = @ - 1]
          /\ UNCHANGED <<vars, frames, gc>>
    /\ UNCHANGED var

TestCollect == Makes("collect") /\ Collects(kind) /\ Collect /\ UNCHANGED var

\* What a test does by itself: with its variables, and with a mark.
TestOwn ==
    /\ \/ /\ Makes("drop")
          /\ handles' = [p \in Addr |-> IF p = var["_"] THEN 0 ELSE handles[p]]
          /\ UNCHANGED mark
       \/ Makes("hold") /\ handles' = [handles EXCEPT ![At(Entry[2])] = 1] /\ UNCHANGED mark
       \/ Makes("setMark") /\ mark' = [mark EXCEPT ![At(Entry[2])] = 1] /\ UNCHANGED handles
    /\ UNCHANGED <<list, live, next, prev, size, refcount, call, data, target, frames, gc, var>>

----------------------------------------------------------------------------
(* The assertions. *)

Assertions == {"avail", "chunk", "size", "mark", "data", "order", "before", "null", "only",
               "unused", "count", "result", "block"}

Holds(e) ==
    CASE e[1] = "avail"  -> AvailableMemory = e[2]
      [] e[1] = "chunk"  -> mark[At(e[2])] = e[3] /\ size[At(e[2])] = e[4]
      [] e[1] = "size"   -> size[At(e[2])] = e[3]
      [] e[1] = "mark"   -> mark[At(e[2])] = e[3]
      [] e[1] = "data"   -> At(e[2]) = var[e[3]]
      [] e[1] = "order"  -> size[At(e[2])] <= size[At(e[3])]
      [] e[1] = "before" -> At(e[2]) < At(e[3])
      [] e[1] = "null"   -> var[e[2]] = NULL
      [] e[1] = "only"   -> next[first] = NULL /\ prev[first] = NULL
      [] e[1] = "unused" -> Used = {}
      [] e[1] = "count"  -> refcount[var[e[2]]] = e[3]
      [] e[1] = "result" -> result = e[2]
      [] e[1] = "block"  -> var[e[2]] \in Used /\ size[var[e[2]]] = e[3]

Compare == \E a \in Assertions : Makes(a) /\ UNCHANGED <<gcVars, var>>

----------------------------------------------------------------------------
(* The code of a call. *)

AllocReturns == pc = "find" /\ cur # NULL /\ Fits(cur, bytes)

TestCode ==
    \/ /\ GCAllocStep
       /\ var' = IF AllocReturns THEN [var EXCEPT ![Caller[2]] = cur] ELSE var
       /\ UNCHANGED result
    \/ /\ Caller[1] = "free" /\ (Lookup \/ Concat)
       /\ UNCHANGED <<program, frames, gc, var, result>>
    \/ ReleaseStep /\ UNCHANGED <<gc, var, result>>
    \/ /\ Caller[1] # "free" /\ CollectStep
       /\ result' = IF Returning THEN (IF Gained(count) THEN 1 ELSE 0) ELSE result
       /\ UNCHANGED var

TestEnded == pc = "client" /\ line > Len(Script) /\ UNCHANGED testVars

TestEntry ==
    /\ TestAlloc \/ TestFree \/ TestCount \/ TestCollect \/ TestOwn \/ Compare
    /\ line' = line + 1
    /\ UNCHANGED result

TestNext ==
    \/ /\ TestEntry \/ (pc # "client" /\ TestCode /\ UNCHANGED line)
       /\ Keep /\ UNCHANGED <<missed, test>>
    \/ TestEnded

\* A test runs to its end by itself.
TestSpec == TestInit /\ [][TestNext]_testVars /\ WF_testVars(TestNext)

----------------------------------------------------------------------------
\* Every assertion of the unit tests holds when it is reached, on a stack
\* without leftovers of earlier calls.
AssertsHold == (\E a \in Assertions : Makes(a)) => Holds(Entry)

\* Every test runs to its end: no call of it loops or gets stuck.
TestsEnd == <>(pc = "client" /\ line > Len(Script))
=============================================================================
