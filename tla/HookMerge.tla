------------------------------- MODULE HookMerge -------------------------------
(***************************************************************************)
(* How the hooks of Aizu and those of others live in one configuration of   *)
(* an agent: merge_hook_configuration and hook_configuration_status of      *)
(* integration.rs.  Every event has a sequence of groups, and a group its   *)
(* handlers.  A group that some version of Aizu generated is recognised by  *)
(* its shape, and no other group may be touched.  HookInstall writes what   *)
(* is merged here; it does not look into the groups.                        *)
(*                                                                          *)
(* A handler is the executable it runs with the form of its command and its *)
(* timeout; how a command is quoted and parsed is not modelled.  A path     *)
(* stands for an executable named aizu, Unusable for one that is not        *)
(* absolute or not printable, Theirs for the command of somebody else.      *)
(***************************************************************************)
EXTENDS Integers, Sequences, FiniteSets, SequencesExt

CONSTANTS
  Paths,                \* of the executable, as its installations moved
  Unusable, Theirs,
  MaxGroups             \* bound: groups of a configuration before it is merged

ASSUME MergeAssumption == Unusable \notin Paths /\ Theirs \notin Paths \union {Unusable}

VARIABLES
  agent,                \* "codex" or "claude-code"
  config                \* [mergeable, disabled, groups]; groups is by event

mergeVars == <<agent, config>>

AllEvents == {"Stop", "StopFailure", "PermissionRequest"}

\* codex_configuration and claude_code_configuration.
Events == IF agent = "codex" THEN AllEvents \ {"StopFailure"} ELSE AllEvents

\* hook_timeout_seconds
Timeout(event) == IF event = "PermissionRequest" THEN "long" ELSE "short"

Handler(path, form, timeout) == [path |-> path, form |-> form, timeout |-> timeout]
Group(bare, handlers) == [bare |-> bare, handlers |-> handlers]

GeneratedHandler(event, path) == Handler(path, "shell", Timeout(event))
GeneratedGroup(event, path) == Group(TRUE, <<GeneratedHandler(event, path)>>)

\* Faulty variant: only what the present version writes is recognised.
IsGeneratedHandler_Now(h, event) == h.path \in Paths /\ h.form = "shell" /\ h.timeout = Timeout(event)

\* is_generated_aizu_handler: older versions gave arguments apart, asked for no
\* answer, or waited a short time only.
IsGeneratedHandler(h, event) ==
  /\ h.path \in Paths
  /\ h.form \in {"shell", "shell async", "args", "args async"}
  /\ h.timeout = Timeout(event) \/ (event = "PermissionRequest" /\ h.timeout = "short")

\* is_generated_aizu_group
IsGeneratedGroup(g, event) == g.bare /\ Len(g.handlers) = 1 /\ IsGeneratedHandler(g.handlers[1], event)

\* retain: what groups has at the places, in order.
Picked(groups, places) ==
  [n \in 1..Cardinality(places) |->
     groups[CHOOSE i \in places : Cardinality({j \in places : j <= i}) = n]]

\* remove_generated_aizu_handlers
Others(groups, event) ==
  Picked(groups, {i \in DOMAIN groups : ~IsGeneratedGroup(groups[i], event)})

\* validate_executable_path
ValidPath(path) == path # Unusable

Mergeable(c, path) == c.mergeable /\ ValidPath(path)

\* merge_hook_configuration
Merged(c, path) ==
  [c EXCEPT !.groups = [event \in AllEvents |->
     IF event \in Events
     THEN LET others == Others(c.groups[event], event)
              own == GeneratedGroup(event, path)
          IN  IF Contains(others, own) THEN others ELSE Append(others, own)
     ELSE c.groups[event]]]

\* configuration_handlers
HandlersOf(groups) == UNION {ToSet(g.handlers) : g \in ToSet(groups)}

\* hook_configuration_status
Status(c, path) ==
  IF \/ agent = "claude-code" /\ c.disabled
     \/ ~Mergeable(c, path) \/ Merged(c, path) # c
     \/ \E event \in Events : GeneratedHandler(event, path) \notin HandlersOf(c.groups[event])
  THEN "missing"
  ELSE IF agent = "codex" THEN "approval required" ELSE "configured"

-------------------------------------------------------------------------------

InitMerge ==
  /\ agent \in {"codex", "claude-code"}
  /\ config = [mergeable |-> TRUE, disabled |-> FALSE, groups |-> [event \in AllEvents |-> << >>]]

Count(c) == Len(c.groups["Stop"]) + Len(c.groups["StopFailure"]) + Len(c.groups["PermissionRequest"])

\* What others write, perhaps around a handler of Aizu, and what older versions left.
ForeignGroups(event) ==
  {Group(bare, <<Handler(Theirs, "shell", "short")>>) : bare \in BOOLEAN}
    \union {Group(FALSE, <<GeneratedHandler(event, path)>>) : path \in Paths}
    \union {Group(TRUE, <<GeneratedHandler(event, path), Handler(Theirs, "shell", "short")>>) : path \in Paths}

OlderGroups(event) ==
  {Group(TRUE, <<h>>) :
     h \in [path : Paths, form : {"shell", "args async"}, timeout : {Timeout(event), "short"}]}

\* Somebody puts a group before or behind the others.
Add(event) ==
  /\ Count(config) < MaxGroups
  /\ \E g \in ForeignGroups(event) \union OlderGroups(event) :
       \E groups \in {<<g>> \o config.groups[event], Append(config.groups[event], g)} :
         config' = [config EXCEPT !.groups[event] = groups]
  /\ UNCHANGED agent

\* Somebody switches all hooks off or on, or breaks or mends the configuration.
EditByOthers ==
  /\ \/ config' = [config EXCEPT !.disabled = ~@]
     \/ config' = [config EXCEPT !.mergeable = ~@]
  /\ UNCHANGED agent

\* The merge of an executable at this path; if it fails, nothing changes.
Install(path) ==
  /\ Mergeable(config, path)
  /\ config' = Merged(config, path)
  /\ UNCHANGED agent

NextMerge ==
  \/ \E event \in Events : Add(event)
  \/ EditByOthers
  \/ \E path \in Paths : Install(path)

Merging == InitMerge /\ [][NextMerge]_mergeVars

-------------------------------------------------------------------------------

Foreign(g) == ~\E path \in Paths, event \in AllEvents : g \in OlderGroups(event) \union {GeneratedGroup(event, path)}

Kept(groups) == Picked(groups, {i \in DOMAIN groups : Foreign(groups[i])})
Made(groups) == Picked(groups, {i \in DOMAIN groups : ~Foreign(groups[i])})

\* A merge keeps the groups that others made or extended, in their order ("Existing
\* hooks must never be replaced wholesale", hook_configuration), and then every event
\* runs one group that Aizu made, whichever versions were installed before and
\* wherever they were.  A second merge changes nothing, and the hooks are reported
\* unless they are switched off (remove_generated_aizu_handlers,
\* hook_configuration_status).
MergedOnce ==
  [][\A path \in Paths : config' # config /\ Install(path) =>
       /\ \A event \in AllEvents : Kept(config'.groups[event]) = Kept(config.groups[event])
       /\ \A event \in Events : Made(config'.groups[event]) = <<GeneratedGroup(event, path)>>
       /\ Merged(config', path) = config'
       /\ Status(config', path) = "missing" <=> agent = "claude-code" /\ config.disabled]_mergeVars

\* The hooks are reported missing only if one of them is not there, or they are
\* switched off (the comment of hook_configuration_status).
StatusReportsPresence ==
  \A path \in Paths :
    /\ config.mergeable /\ ~config.disabled
    /\ \A event \in Events : Contains(config.groups[event], GeneratedGroup(event, path))
    => Status(config, path) # "missing"
===============================================================================
