---------------------------- MODULE HookRegistry ----------------------------
(***************************************************************************)
(* HookRegistry (hooks/registry.ts): four chains of hooks, filled by       *)
(* initializeHooks() and by the plugins that PluginManager loads, sorted   *)
(* in place at each registration and walked, with an await at every hook,  *)
(* by the handlers of tool calls, chat messages and finished turns.        *)
(* OpenCode may start the plugin for a second directory while calls of the *)
(* first run: both share the registry.                                     *)
(***************************************************************************)
EXTENDS Naturals, Sequences, FiniteSets, SequencesExt

CONSTANTS
  HookCalls,    \* concurrent walks of a chain
  Plugins,      \* plugin name -> kinds of hook it brings
  MaxStarts     \* starts of the orchestrator after the first

VARIABLES
  chain,     \* kind -> the registrations, in the order they run
  loaded,    \* plugins in PluginManager's map
  starts,
  call

hookVars == <<chain, loaded, starts, call>>

Kinds == {"preTool", "postTool", "chat", "done"}

Hook(name, phase, priority, deps, stops) ==
  [name |-> name, phase |-> phase, priority |-> priority, deps |-> deps, stops |-> stops]

(* The hooks of initializeHooks() by kind; phases are 0 early, 1 normal    *)
(* and 2 late.                                                             *)
Defaults == [
  chat |-> <<Hook("user-activity", 0, 10, <<>>, FALSE),
             Hook("mission-control", 0, 20, <<"user-activity">>, TRUE)>>,
  preTool |-> <<Hook("role-guard", 0, 10, <<>>, TRUE),
                Hook("metrics-pre", 2, 90, <<>>, FALSE)>>,
  postTool |-> <<Hook("sanity-check", 0, 10, <<>>, TRUE),
                 Hook("secret-scanner", 0, 20, <<"sanity-check">>, TRUE),
                 Hook("agent-ui", 1, 40, <<>>, FALSE),
                 Hook("resource-control", 1, 50, <<>>, FALSE),
                 Hook("memory-gate", 1, 60, <<>>, FALSE),
                 Hook("metrics-post", 2, 90, <<"metrics-pre">>, FALSE)>>,
  done |-> <<Hook("sanity-check", 0, 10, <<>>, FALSE),
             Hook("mission-control", 0, 20, <<>>, FALSE),
             Hook("resource-control", 1, 50, <<>>, FALSE),
             Hook("memory-gate", 1, 60, <<>>, FALSE),
             Hook("metrics-done", 2, 90, <<>>, FALSE)>>]

(* prepareMetadata(): what a plugin's hook is registered with.             *)
PluginHook(name) == Hook(name, 1, 50, <<>>, FALSE)

Before(a, b) ==
  \/ a.phase < b.phase
  \/ a.phase = b.phase /\ a.priority < b.priority

(* The sort is stable.                                                     *)
SortedByKey(hooks) ==
  LET order == SortSeq([i \in DOMAIN hooks |-> i],
                 LAMBDA i, j : \/ Before(hooks[i], hooks[j])
                               \/ ~Before(hooks[j], hooks[i]) /\ i < j)
  IN  [i \in DOMAIN hooks |-> hooks[order[i]]]

(* topologicalSort(): a name stands for its last registration; one that is *)
(* not in this chain is passed over, and a cycle throws.                   *)
RECURSIVE Visit(_, _, _)
Visit(hooks, name, walk) ==
  LET i == SelectLastInSeq(hooks, LAMBDA hook : hook.name = name)
      below == IF i = 0 THEN walk
               ELSE FoldLeft(LAMBDA w, dep : Visit(hooks, dep, w),
                             [walk EXCEPT !.visiting = @ \cup {name}], hooks[i].deps)
  IN  IF name \in walk.visiting THEN [walk EXCEPT !.circular = TRUE]
      ELSE IF name \in walk.visited THEN walk
      ELSE IF below.circular THEN below
      ELSE [below EXCEPT !.visiting = @ \ {name}, !.visited = @ \cup {name},
              !.sorted = IF i = 0 THEN @ ELSE Append(@, hooks[i])]

TopologicalSort(hooks) ==
  FoldLeft(LAMBDA walk, hook : Visit(hooks, hook.name, walk),
           [sorted |-> <<>>, visited |-> {}, visiting |-> {}, circular |-> FALSE], hooks)

(* sortHooks().  None of the hooks above form a cycle.                     *)
SortHooks(hooks) == TopologicalSort(SortedByKey(hooks)).sorted

Registered(hooks, hook) == SortHooks(Append(hooks, hook))

InitializeHooks(chains) ==
  [kind \in Kinds |-> FoldLeft(Registered, chains[kind], Defaults[kind])]

NoCall == [at |-> "idle", kind |-> "chat", next |-> 1, due |-> {}, ran |-> {},
           threw |-> {}, value |-> "given", applied |-> "given"]

Init ==
  /\ chain = InitializeHooks([kind \in Kinds |-> <<>>])
  /\ loaded = {}
  /\ starts = 0
  /\ call = [c \in HookCalls |-> NoCall]

(* The orchestrator is started once more.                                  *)
StartAgain ==
  /\ starts < MaxStarts /\ starts' = starts + 1
  /\ chain' = InitializeHooks(chain)
  /\ UNCHANGED <<loaded, call>>

(* loadPlugin(), after its import and init; one that throws, or has no     *)
(* name, registers nothing.  Plugins are loaded again at each start.       *)
LoadPlugin(p) ==
  /\ chain' = [kind \in Kinds |-> IF kind \in Plugins[p]
                                  THEN Registered(chain[kind], PluginHook(p)) ELSE chain[kind]]
  /\ loaded' = loaded \cup {p}
  /\ UNCHANGED <<starts, call>>

(* PluginManager.shutdown() forgets the plugins; their hooks stay.         *)
ShutdownPlugins ==
  /\ loaded # {} /\ loaded' = {}
  /\ UNCHANGED <<chain, starts, call>>

Set(c, record) == call' = [call EXCEPT ![c] = record]

(* executePreTool(), executePostTool(), executeChat(), executeDone().      *)
Execute(c, kind) ==
  /\ call[c].at = "idle"
  /\ Set(c, [NoCall EXCEPT !.at = "walking", !.kind = kind,
                           !.due = {chain[kind][i].name : i \in DOMAIN chain[kind]}])
  /\ UNCHANGED <<chain, loaded, starts>>

(* block, intercept, stop and inject end a walk; nothing ends that of the  *)
(* post-tool hooks.                                                        *)
MayEnd(kind) == kind # "postTool"
MayChange(kind) == kind # "done"

(* Mutant of Fatal: an error of a hook never ends the walk.                *)
NeverFatal(hook) == FALSE

Fatal(hook) == hook.stops

(* The await of a hook ends, and the loop goes on with what is next in the *)
(* chain as it is now.                                                     *)
RunHook(c) ==
  LET walk == call[c]
      hook == chain[walk.kind][walk.next]
      went == [walk EXCEPT !.next = @ + 1, !.ran = @ \cup {hook.name}]
  IN  /\ walk.at = "walking" /\ walk.next <= Len(chain[walk.kind])
      /\ \/ Set(c, went)
         \/ MayChange(walk.kind) /\ Set(c, [went EXCEPT !.value = "changed"])
         \/ MayEnd(walk.kind) /\ Set(c, [went EXCEPT !.at = "ended"])
         \/ Set(c, [went EXCEPT !.threw = @ \cup {hook.name},
                                !.at = IF Fatal(hook) THEN "failed" ELSE @])
      /\ UNCHANGED <<chain, loaded, starts>>

(* The end of the chain: a pre-tool walk returns ALLOW with the arguments, *)
(* which its handler applies only to a MODIFY; the others hand on what the *)
(* hooks made of the message or of the output.                             *)
Passes(c) ==
  LET walk == call[c]
      action == IF walk.kind = "preTool" THEN "allow" ELSE "process"
  IN  /\ walk.at = "walking" /\ walk.next > Len(chain[walk.kind])
      /\ Set(c, [walk EXCEPT !.at = "passed",
           !.applied = IF walk.kind # "preTool" \/ action = "modify" THEN walk.value ELSE @])
      /\ UNCHANGED <<chain, loaded, starts>>

Returns(c) ==
  /\ call[c].at \in {"passed", "ended", "failed"}
  /\ Set(c, NoCall)
  /\ UNCHANGED <<chain, loaded, starts>>

Next ==
  \/ StartAgain \/ ShutdownPlugins
  \/ \E p \in DOMAIN Plugins : LoadPlugin(p)
  \/ \E c \in HookCalls :
       \/ \E kind \in Kinds : Execute(c, kind)
       \/ RunHook(c) \/ Passes(c) \/ Returns(c)

Spec == Init /\ [][Next]_hookVars

----------------------------------------------------------------------------
HooksTypeOK ==
  /\ DOMAIN chain = Kinds /\ loaded \subseteq DOMAIN Plugins /\ starts \in 0..MaxStarts
  /\ \A c \in HookCalls :
       /\ call[c].at \in {"idle", "walking", "passed", "ended", "failed"}
       /\ call[c].kind \in Kinds /\ call[c].value \in {"given", "changed"}

(* A walk that passes has run every hook that was in the chain when it     *)
(* began, and no hook whose errors are to stop it threw: registrations in  *)
(* the middle of a walk shift the chain under it but let no guard slip by. *)
NoHookSkipped ==
  \A c \in HookCalls :
    call[c].at = "passed" =>
      /\ call[c].due \subseteq call[c].ran
      /\ \A i \in DOMAIN Defaults[call[c].kind] :
           LET hook == Defaults[call[c].kind][i]
           IN  hook.stops => hook.name \notin call[c].threw

(* "Can block execution or modify arguments" (hooks/types.ts 31): what the *)
(* hooks make of the arguments of a tool call reaches the tool.            *)
ModifiedArgsReachTool ==
  \A c \in HookCalls :
    call[c].at = "passed" /\ call[c].kind = "preTool" => call[c].applied = call[c].value
============================================================================
