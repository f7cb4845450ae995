-------------------------- MODULE MCNativeRuntime --------------------------
(* NativeRuntime on a small instance, and the registrations and environments *)
(* that RuntimeStart accepts, over small ones.                               *)
EXTENDS NativeRuntime

At == INSTANCE RuntimeStart

\* Two modules of one counter each, the second with an empty fragment, and one that
\* is not registered.
Fragment(id, from, length) == [fragment_id |-> id, slice_base |-> from, slice_length |-> length]
Module(total, from, length, fragments) ==
    [protocol_major |-> 1, map_id |-> 1, target |-> 1, compiler_identity |-> 1, program_counter_count |-> total,
     slice_base |-> from, slice_length |-> length, fragments |-> fragments]
MCModules == <<Module(2, 0, 1, <<Fragment(1, 0, 1)>>), Module(2, 1, 1, <<Fragment(2, 1, 0), Fragment(3, 1, 1)>>)>>
Stranger  == Module(1, 0, 1, <<Fragment(4, 0, 1)>>)

ASSUME At!ValidRegistration(MCModules)

MCTargets == {At!Named(MCModules, m, i) : m \in {MCModules[1], MCModules[2], Stranger}, i \in 0 .. 1}
ASSUME MCTargets = Counters \cup {Unregistered}

\* Modules of one fragment, of two, and registrations of up to three of them.
Ends       == 0 .. 2
OfOne(k)   == {Module(2, b, l, <<Fragment(10 * k, c, n)>>) : b, l, c, n \in Ends}
OfTwo(k)   == {Module(2, b, l, <<Fragment(10 * k, b, n), Fragment(10 * k + 1, c, o)>>) : b, l, n, c, o \in Ends}
Registrations ==
    {<<m>> : m \in OfOne(1) \cup OfTwo(1)} \cup {<<m, n>> : m \in OfOne(1) \cup OfTwo(1), n \in OfOne(2)}
        \cup {<<m, n, o>> : m \in {x \in OfOne(1) : At!FragmentsOK(x)}, n \in {x \in OfOne(2) : At!FragmentsOK(x)},
                            o \in {x \in OfOne(3) : At!FragmentsOK(x)}}

\* Every counter is named by exactly one index of one module.
ASSUME \A modules \in {r \in Registrations : At!ValidRegistration(r)} :
          \A c \in 0 .. 1 :
              Cardinality({p \in (DOMAIN modules) \X (0 .. 2) : At!Named(modules, modules[p[1]], p[2]) = c}) = 1
\* Accepted registrations are accepted in any order of their modules.
ASSUME \A r \in Registrations :
          Len(r) = 2 => At!ValidRegistration(r) = At!ValidRegistration(<<r[2], r[1]>>)

\* What an accepted environment says does not depend on its order; one that is not
\* accepted is required unless its first setting says otherwise.
Entry == {[name |-> n, value |-> v] : n \in {"REQUIRED"}, v \in {"0", "1", "2"}}
            \cup {[name |-> "PROFILE_DIR", value |-> v] : v \in {"directory", "relative"}}
            \cup {[name |-> "RUN_ID", value |-> v] : v \in {"id", "zero"}}
            \cup {[name |-> "CONTEXT", value |-> v] : v \in {"text", "long"}}
            \cup {[name |-> "unknown", value |-> "1"]}
Environments == UNION {[1 .. n -> Entry] : n \in 0 .. 4}
SaysRequired(environ) == \E k \in DOMAIN environ : environ[k] = [name |-> "REQUIRED", value |-> "1"]
ASSUME \A environ \in Environments : At!TransportOK(environ) => At!Required(environ) = SaysRequired(environ)
ASSUME \E environ \in Environments : At!TransportOK(environ) /\ At!Required(environ)
=============================================================================
