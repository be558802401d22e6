----------------------------- MODULE CoreOptions -----------------------------
(***************************************************************************)
(* The options of the core in class Environment: a map and a flag, without *)
(* a lock.  The main thread writes a value and then raises the flag; the   *)
(* core declares its options with their defaults, reads all of them once,  *)
(* and again whenever GET_VARIABLE_UPDATE tells it that one has changed.   *)
(* A step is one access to the map or to the flag.                         *)
(***************************************************************************)
EXTENDS Integers

CONSTANTS
  Options,            \* the keys
  OptionValues             \* the values

None == "none"        \* no value: the empty string

ASSUME OptionsAssumption == None \notin OptionValues

VARIABLES
  variables, dirtyVariables,
  setter,             \* the main thread: back in its looper, or to raise the flag
  client,             \* what the core is about to do
  toldDirty,          \* what GET_VARIABLE_UPDATE read
  copied,             \* the value that SET_VARIABLES took from the map
  remaining,          \* the options it still has to declare or to read
  seen,               \* the values that the core works with
  chosen,             \* history: the last choice of the user
  overlooked,         \* history: the flag was raised between a read that found
                      \* it down and the clearing that follows
  overwritten         \* history: options written while they were being declared

optionVars == <<variables, dirtyVariables, setter, client, toldDirty, copied,
                remaining, seen, chosen, overlooked, overwritten>>

Values == OptionValues \cup {None}

OptionsTypeOK ==
  /\ variables \in [Options -> Values] /\ seen \in [Options -> Values]
  /\ chosen \in [Options -> Values]
  /\ dirtyVariables \in BOOLEAN /\ toldDirty \in BOOLEAN /\ overlooked \in BOOLEAN
  /\ setter \in {"idle", "flag"}
  /\ client \in {"declare", "store", "read", "idle", "clear"}
  /\ copied \in Options \X Values \cup {<<>>}
  /\ remaining \subseteq Options /\ overwritten \subseteq Options

OptionsInit ==
  /\ variables = [o \in Options |-> None] /\ seen = variables /\ chosen = variables
  /\ dirtyVariables = FALSE /\ toldDirty = FALSE
  /\ overlooked = FALSE /\ overwritten = {}
  /\ setter = "idle"
  /\ client = "declare" /\ copied = <<>> /\ remaining = Options

-----------------------------------------------------------------------------
(* Variants of the definitions below with one fault each.                  *)

\* The flag cleared when everything has been read.
ReadThenClear(o) ==
  /\ client = "read" /\ o \in remaining
  /\ seen' = [seen EXCEPT ![o] = variables[o]]
  /\ remaining' = remaining \ {o}
  /\ \/ remaining # {o} /\ client' = "read" /\ dirtyVariables' = dirtyVariables
     \/ remaining = {o} /\ client' = "idle" /\ dirtyVariables' = FALSE
  /\ UNCHANGED <<variables, setter, toldDirty, copied, chosen, overlooked, overwritten>>

\* A declaration that always takes the default.
DefaultAlways(v, default) == default

-----------------------------------------------------------------------------
\* updateVariable: a value that differs is stored, and then the flag is raised.
UpdateVariable(o, v) ==
  /\ setter = "idle" /\ variables[o] # v
  /\ variables' = [variables EXCEPT ![o] = v]
  /\ chosen' = [chosen EXCEPT ![o] = v]
  /\ setter' = "flag"
  /\ overwritten' = IF copied # <<>> /\ copied[1] = o
                    THEN overwritten \cup {o} ELSE overwritten \ {o}
  /\ UNCHANGED <<dirtyVariables, client, toldDirty, copied, remaining, seen, overlooked>>

RaiseFlag ==
  /\ setter = "flag" /\ setter' = "idle"
  /\ dirtyVariables' = TRUE
  /\ \/ client = "clear" /\ ~toldDirty /\ overlooked' = TRUE
     \/ (client # "clear" \/ toldDirty) /\ overlooked' = FALSE
  /\ UNCHANGED <<variables, client, toldDirty, copied, remaining, seen, chosen, overwritten>>

-----------------------------------------------------------------------------
(* SET_VARIABLES: every option is copied, given its default if it has no   *)
(* value, and stored.                                                      *)

WithDefault(v, default) == IF v = None THEN default ELSE v

CopyOption(o) ==
  /\ client = "declare" /\ o \in remaining
  /\ copied' = <<o, variables[o]>>
  /\ client' = "store"
  /\ UNCHANGED <<variables, dirtyVariables, setter, toldDirty, remaining, seen,
                 chosen, overlooked, overwritten>>

\* The default, the first value of the description, is any choice.
StoreOption(default) ==
  /\ client = "store"
  /\ variables' = [variables EXCEPT ![copied[1]] = WithDefault(copied[2], default)]
  /\ copied' = <<>>
  /\ \/ remaining # {copied[1]}
        /\ remaining' = remaining \ {copied[1]} /\ client' = "declare"
     \/ remaining = {copied[1]}
        /\ remaining' = Options /\ client' = "read"
  /\ UNCHANGED <<dirtyVariables, setter, toldDirty, seen, chosen, overlooked, overwritten>>

-----------------------------------------------------------------------------
\* GET_VARIABLE.
ReadOption(o) ==
  /\ client = "read" /\ o \in remaining
  /\ seen' = [seen EXCEPT ![o] = variables[o]]
  /\ remaining' = remaining \ {o}
  /\ \/ remaining # {o} /\ client' = "read"
     \/ remaining = {o} /\ client' = "idle"
  /\ UNCHANGED <<variables, dirtyVariables, setter, toldDirty, copied, chosen,
                 overlooked, overwritten>>

\* GET_VARIABLE_UPDATE, at the start of a frame.
AskUpdate ==
  /\ client = "idle" /\ client' = "clear"
  /\ toldDirty' = dirtyVariables
  /\ UNCHANGED <<variables, dirtyVariables, setter, copied, remaining, seen,
                 chosen, overlooked, overwritten>>

ClearUpdate ==
  /\ client = "clear"
  /\ dirtyVariables' = FALSE
  /\ \/ toldDirty /\ client' = "read" /\ remaining' = Options
     \/ ~toldDirty /\ client' = "idle" /\ remaining' = remaining
  /\ UNCHANGED <<variables, setter, toldDirty, copied, seen, chosen, overlooked, overwritten>>

\* destroy() and the create() of the next session: the map and the flag stay.
NextSession ==
  /\ client = "idle" /\ client' = "declare" /\ remaining' = Options
  /\ seen' = [o \in Options |-> None]
  /\ UNCHANGED <<variables, dirtyVariables, setter, toldDirty, copied, chosen,
                 overlooked, overwritten>>

OptionsNext ==
  \/ \E o \in Options, v \in OptionValues : UpdateVariable(o, v)
  \/ RaiseFlag
  \/ \E o \in Options : CopyOption(o) \/ ReadOption(o)
  \/ \E default \in OptionValues : StoreOption(default)
  \/ AskUpdate \/ ClearUpdate \/ NextSession

OptionsSpec == OptionsInit /\ [][OptionsNext]_optionVars

-----------------------------------------------------------------------------
\* Between frames, with the flag down and no update in progress, the core works
\* with the values that the user sees, unless the flag was raised in the window
\* between the two accesses of GET_VARIABLE_UPDATE.
NoUpdateLost ==
  client = "idle" /\ setter = "idle" /\ ~dirtyVariables /\ ~overlooked
    => seen = variables

\* The last choice of the user is the value of the option, whatever defaults
\* the core declares and however often a session begins, unless it was made in
\* the moment in which the core declares that option.
ChoiceKept ==
  \A o \in Options :
    chosen[o] # None /\ o \notin overwritten => variables[o] = chosen[o]
=============================================================================
