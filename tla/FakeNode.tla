------------------------------- MODULE FakeNode -------------------------------
(***************************************************************************)
(* fakelocal/fakelocal.go: the node that stands in for PVE in tests.  Its  *)
(* qm and pct read a guest's file with conf.Parse, merge the flags they    *)
(* are given and write the file anew.  The file is ConfFile's text: a test *)
(* may seed any, and the commands follow one another.                      *)
(***************************************************************************)
EXTENDS ConfFile

CONSTANTS
    FlagKeys,      \* options that the commands set
    FieldOrder,    \* all keys, in sorted order
    Descriptions,  \* what the commands set descriptions to, as '#' lines
    MaxSeed,       \* bound: lines in a file that a command is given
    MaxCommands    \* bound: commands

ASSUME OrderAssumption ==
    /\ FieldOrder \in Seq(Keys \cup FlagKeys) /\ ToSet(FieldOrder) = Keys \cup FlagKeys
    /\ IsInjective(FieldOrder)
ASSUME DescriptionsAssumption ==
    \A d \in Descriptions : d \in Seq({l \in Lines : HasHash(l)}) /\ d # <<Comment(NoText)>>
ASSUME CommandsAssumption == MaxSeed \in Nat /\ MaxCommands \in Nat

VARIABLES
    exists,    \* the guest has a file
    commands

fakeVars == <<vars, exists, commands>>

\* The flags of a command: options, and at most one --description.  A --digest
\* is taken and ignored, like the ostemplate of pct create.
Fields == UNION {[ks -> Values] : ks \in SUBSET FlagKeys}
Flags  == [fields : Fields, description : {{}} \cup {{d} : d \in Descriptions}]

Merge(new, old) ==
    [k \in DOMAIN new \cup DOMAIN old |-> IF k \in DOMAIN new THEN new[k] ELSE old[k]]

\* A guest without a file has no options and no description.
ReadGuest ==
    IF exists THEN [description |-> File(st).description, fields |-> File(st).current.values]
    ELSE [description |-> <<>>, fields |-> <<>>]

RenderFields(fields) ==
    LET Add(out, k) == IF k \in DOMAIN fields THEN Append(out, Option(k, fields[k])) ELSE out
    IN  FoldLeft(Add, <<>>, FieldOrder)

\* Faulty: the options before the description.
RenderFieldsFirst(description, fields) == RenderFields(fields) \o description

RenderGuest(description, fields) == description \o RenderFields(fields)

(***************************************************************************)
(* create and set are one: neither minds whether there is a guest.  A file *)
(* that does not parse ends the test instead.                              *)
(***************************************************************************)
SetGuest(flags) ==
    /\ ~failed
    /\ LET old == ReadGuest
           description == CHOOSE d \in IF flags.description = {} THEN {old.description}
                                         ELSE flags.description : TRUE
       IN  text' = RenderGuest(description, Merge(flags.fields, old.fields))
    /\ st' = FoldLeft(ReadLine, Start, text')
    /\ exists' = TRUE
    /\ UNCHANGED failed

\* A guest that has no file is destroyed without an error.
DestroyGuest ==
    /\ text' = <<>> /\ st' = Start /\ exists' = FALSE /\ failed' = FALSE

Command ==
    /\ commands < MaxCommands /\ commands' = commands + 1
    /\ Len(text) <= MaxSeed
    /\ DestroyGuest \/ \E flags \in Flags : SetGuest(flags)

\* WithGuest, WithLXCGuest: the seed is written verbatim, before any command.
Seed ==
    /\ exists /\ commands = 0
    /\ Next
    /\ UNCHANGED <<exists, commands>>

FakeInit == Init /\ exists \in BOOLEAN /\ commands = 0

FakeNext == Seed \/ Command

FakeSpec == FakeInit /\ [][FakeNext]_fakeVars

(***************************************************************************)
(* What Get reads after a set is what it read before with the flags in it: *)
(* no option of the seed is lost, none of another section gets in, and the *)
(* description stays unless it is set.  [PENDING] and the snapshots of the *)
(* seed are gone.  A "#...: ..." in the options, as in Reparse, is left    *)
(* out.                                                                    *)
(***************************************************************************)
SetMerges ==
    [][\A flags \in Flags :
          SetGuest(flags) /\ DOMAIN Merge(flags.fields, ReadGuest.fields) \cap HashKeys = {}
          => LET after == Parse(text')
             IN  /\ after.current.values = Merge(flags.fields, ReadGuest.fields)
                 /\ flags.description \subseteq {after.description}
                 /\ flags.description = {} => after.description = ReadGuest.description
                 /\ after.pending = EmptySection /\ after.snapshots = <<>>]_fakeVars
=============================================================================
