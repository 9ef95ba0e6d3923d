------------------------------ MODULE MCAccuTrak ------------------------------
(***************************************************************************)
(* Model checking instance of AccuTrak: the executable, a system library,  *)
(* one under /usr/ that loads modules too, and three modules of the        *)
(* application, one of which has a path that contains another's name.      *)
(***************************************************************************)
EXTENDS AccuTrak

MCLibs == {"exec", "a", "ba", "c", "u", "s"}
MCBaseName == [exec |-> "", a |-> "a.so", ba |-> "ba.so", c |-> "c.so", u |-> "u.so",
               s |-> "s.so"]
MCKind == [exec |-> "user", a |-> "user", ba |-> "user", c |-> "user", u |-> "usr",
           s |-> "system"]
MCPathContains == [exec |-> {""}, a |-> {"", "a.so"}, ba |-> {"", "a.so", "ba.so"},
                   c |-> {"", "c.so"}, u |-> {"", "u.so"}, s |-> {"", "s.so"}]
MCInitialCores == {<<"exec", "u">>, <<"exec", "ba", "s", "u", "c">>}
MCClosable == {"a", "c"}

Line(key, val) == [key |-> key, val |-> val]

\* Options about modules: the mode comes first.
PatchFiles ==
  {<<Line("mode", mode), Line("modules", names), option>> :
     mode \in {"padding", "record", "private_heap"},
     names \in {<<"all">>, <<"exec", "c.so">>, <<"a.so">>},
     option \in {Line("self_contained", "yes"), Line("patch_dlopen", "no"),
                 Line("incremental_patch", "no"), Line("patch_debug", "no")}}

\* Numbers around every limit, in any order, and other options.
Numbers ==
  {Line("min_block_size", 5), Line("min_block_size", -1), Line("max_block_size", 4),
   Line("max_block_size", 1000), Line("alignment", 3), Line("alignment", 256),
   Line("alignment", 512), Line("back_trace_depth", 33), Line("back_trace_depth", -1),
   Line("max_cached_blocks", 31), Line("max_cached_blocks", 32),
   Line("max_defer_free_bytes", 4095), Line("max_defer_free_bytes", 4096)}
OtherFiles ==
  {<<Line("self_contained", "yes"), Line("mode", "record"), l1, l2, l3>> :
     l1 \in Numbers, l2 \in Numbers, l3 \in Numbers}
    \cup {<<Line("mode", m1), Line("mode", m2)>> : m1, m2 \in Modes}
    \cup {<<Line("mode", "record"), Line("check_frequency", 10), Line("message_level", "all"),
            Line("event", [mType |-> "free", mValue |-> 1]), Line("event_action", "pause")>>}

\* Modules come first, as in test_src/TestPrivateHeap.ini: all get one family of routines,
\* or some get another than the rest.
ModulesFirst ==
  {<<Line("modules", <<"exec", "c.so">>), Line("mode", mode), later>> :
     mode \in {"private_heap", "record"},
     later \in {Line("modules", <<"a.so">>), Line("modules", <<"all">>), Line("patch_debug", "no")}}

MCConfigFiles == PatchFiles \cup OtherFiles \cup ModulesFirst
================================================================================
