--------------------------- MODULE VersionHistory ---------------------------
(***************************************************************************)
(* What the configuration store promises, without transactions, handlers   *)
(* or revisions: every flag has a linear history of configurations, a      *)
(* change adds exactly one configuration at the end of one history, and    *)
(* an archived flag never comes back.  README.md:45 of the repository says *)
(* it as "a linear, immutable version snapshot" per mutation.              *)
(***************************************************************************)
EXTENDS Naturals, Sequences

CONSTANTS
    Flag,      \* feature flags: one (project, key) pair each
    Content,   \* configurations a version may hold
    Existing   \* flags that have a first version at the start

VARIABLES
    history,   \* history[f]: the configurations of f, oldest first
    archived   \* the flags that were archived

histvars == <<history, archived>>

Init ==
    /\ history \in [Flag -> {<<>>} \cup {<<c>> : c \in Content}]
    /\ \A f \in Flag : history[f] # <<>> <=> f \in Existing
    /\ archived = {}

(* A flag is created once, with its first configuration.                   *)
Create(f) ==
    /\ history[f] = <<>>
    /\ \E c \in Content : history' = [history EXCEPT ![f] = <<c>>]
    /\ UNCHANGED archived

(* Update, added rule, rollback and scheduled change alike: one more       *)
(* configuration at the end.                                               *)
Replace(f) ==
    /\ history[f] # <<>>
    /\ \E c \in Content : history' = [history EXCEPT ![f] = Append(@, c)]
    /\ UNCHANGED archived

Archive(f) ==
    /\ history[f] # <<>>
    /\ archived' = archived \cup {f}
    /\ UNCHANGED history

Next == \E f \in Flag : Create(f) \/ Replace(f) \/ Archive(f)

Spec == Init /\ [][Next]_histvars
=============================================================================
