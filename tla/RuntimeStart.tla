---------------------------- MODULE RuntimeStart ----------------------------
(***************************************************************************)
(* What the native runtime accepts before user code runs: the transport in *)
(* the environment (rt_read_transport) and the registered modules          *)
(* (rt_check_registration), and which counter a hit of a registered module *)
(* then names.                                                             *)
(*                                                                         *)
(* An environment is the sequence of its SV0COV_* entries, [name, value],  *)
(* a name that is not one of the four, or an entry without a value, being  *)
(* "unknown".  A value is what the code tells of it: "0", "1" or another;  *)
(* an existing "directory" by an absolute path; a run "id"; a context      *)
(* "text" of UTF-8 within the limit.  A malformed map ID or identity is    *)
(* Malformed.                                                              *)
(***************************************************************************)
EXTENDS Integers, FiniteSets, Sequences, FiniteSetsExt

TransportNames == {"PROFILE_DIR", "RUN_ID", "CONTEXT", "REQUIRED"}

Entries(environ, name) == {k \in DOMAIN environ : environ[k].name = name}

\* Of an entry that is set more than once the first is taken.
ValueOf(environ, name, default) ==
    LET found == Entries(environ, name) IN
    IF found = {} THEN default ELSE environ[CHOOSE k \in found : \A j \in found : k <= j].value

\* Required mode, known before anything can fail; a malformed value is required.
Required(environ) == ValueOf(environ, "REQUIRED", "0") # "0"

TransportOK(environ) ==
    /\ \A k \in DOMAIN environ : environ[k].name \in TransportNames
    /\ \A name \in TransportNames : Cardinality(Entries(environ, name)) <= 1
    /\ ValueOf(environ, "REQUIRED", "0") \in {"0", "1"}
    /\ ValueOf(environ, "PROFILE_DIR", "none") = "directory"
    /\ ValueOf(environ, "RUN_ID", "none") = "id"
    /\ ValueOf(environ, "CONTEXT", "text") = "text"

-----------------------------------------------------------------------------
(* Registration.  A module is [protocol_major, map_id, target,             *)
(* compiler_identity, program_counter_count, slice_base, slice_length,     *)
(* fragments], a fragment [fragment_id, slice_base, slice_length].         *)

Malformed == 0
Protocol  == 1

Starts(x) == x.slice_base
End(x)    == x.slice_base + x.slice_length

\* The fragments of a module tile its slice in their order.
FragmentsOK(m) ==
    LET f == m.fragments IN
    /\ f # <<>>
    /\ \A k \in DOMAIN f : f[k].fragment_id # Malformed
    /\ Starts(f[1]) = Starts(m) /\ End(f[Len(f)]) = End(m)
    /\ \A k \in 1 .. Len(f) - 1 : Starts(f[k + 1]) = End(f[k])

\* One module against the first.
ModuleOK(m, first) ==
    /\ m.protocol_major = Protocol
    /\ \A field \in {"map_id", "target", "compiler_identity"} : m[field] # Malformed /\ m[field] = first[field]
    /\ m.program_counter_count = first.program_counter_count
    /\ FragmentsOK(m)
    /\ End(m) <= first.program_counter_count

Overlap(x, y) ==
    /\ x.slice_length > 0 /\ y.slice_length > 0
    /\ Starts(x) < End(y) /\ Starts(y) < End(x)

\* Where the fragments are: <<module, fragment>> positions.
Positions(modules) == UNION {{<<k, f>> : f \in DOMAIN modules[k].fragments} : k \in DOMAIN modules}
FragmentAt(modules, p) == modules[p[1]].fragments[p[2]]

FragmentsOnce(modules) ==
    \A p, q \in Positions(modules) :
        FragmentAt(modules, p).fragment_id = FragmentAt(modules, q).fragment_id => p = q

\* An empty fragment sits where a slice begins, or at the end of the counters.
EmptiesPlaced(modules, total) ==
    \A p \in Positions(modules) :
        LET z == FragmentAt(modules, p) IN
        z.slice_length = 0 /\ Starts(z) # total =>
            \E q \in Positions(modules) :
                FragmentAt(modules, q).slice_length > 0 /\ Starts(FragmentAt(modules, q)) = Starts(z)

CountersOwned(modules) == MapThenSumSet(LAMBDA k : modules[k].slice_length, DOMAIN modules)

\* rt_check_registration
ValidRegistration(modules) ==
    /\ modules # <<>>
    /\ LET total == modules[1].program_counter_count IN
       /\ \A k \in DOMAIN modules : ModuleOK(modules[k], modules[1])
       /\ FragmentsOnce(modules)
       /\ \A j, k \in DOMAIN modules : j # k => ~Overlap(modules[j], modules[k])
       /\ CountersOwned(modules) = total
       /\ EmptiesPlaced(modules, total)

\* The counter that a hit names, Unregistered if the module is not registered or
\* has no such counter.
Unregistered == -1
Named(modules, m, local_index) ==
    IF (\E k \in DOMAIN modules : modules[k] = m) /\ local_index < m.slice_length
    THEN m.slice_base + local_index ELSE Unregistered
=============================================================================
