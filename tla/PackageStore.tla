---------------------------- MODULE PackageStore ----------------------------
(***************************************************************************)
(* What the packages promise, whatever their layout: a path holds nothing, *)
(* a package, or a damaged file.  A package that a loader of its path      *)
(* accepts is loaded as the program it was saved from; anything else is    *)
(* refused.  A save may leave a damaged file behind, never another         *)
(* program, and nothing but a save touches a file.                         *)
(***************************************************************************)
CONSTANTS Path, Format, Programs,
          Accepts,                  (* the formats a path is loaded as     *)
          NoFile, Damaged, None

VARIABLES stored,   (* what each path holds                                *)
          program,  (* the program in memory, or None                      *)
          verdict   (* the answer to the last load, or "none"              *)

storeVars == <<stored, program, verdict>>

Package == [format : Format, program : Programs]

StoreTypeOK ==
  /\ stored \in [Path -> Package \cup {NoFile, Damaged}]
  /\ program \in Programs \cup {None}
  /\ verdict \in {"none", "loaded", "refused"}

Loadable(p) == stored[p] \in {k \in Package : k.format \in Accepts[p]}

StoreInit ==
  /\ stored \in [Path -> {NoFile, Damaged}]
  /\ program = None /\ verdict = "none"

Assemble ==
  /\ program = None /\ program' \in Programs /\ verdict' = "none"
  /\ UNCHANGED stored

Load(p) ==
  /\ program = None /\ Loadable(p)
  /\ program' = stored[p].program /\ verdict' = "loaded"
  /\ UNCHANGED stored

Refuse(p) ==
  /\ program = None /\ ~Loadable(p)
  /\ verdict' = "refused"
  /\ UNCHANGED <<stored, program>>

Save(p, f) ==
  /\ program # None
  /\ stored' = [stored EXCEPT ![p] = [format |-> f, program |-> program]]
  /\ UNCHANGED <<program, verdict>>

Spoil(p) ==
  /\ program # None
  /\ stored' = [stored EXCEPT ![p] = Damaged]
  /\ UNCHANGED <<program, verdict>>

(* The process ends, or the next one starts.                               *)
Leave == program' = None /\ verdict' = "none" /\ UNCHANGED stored

StoreNext ==
  \/ Assemble \/ Leave
  \/ \E p \in Path : Load(p) \/ Refuse(p) \/ Spoil(p) \/ \E f \in Format : Save(p, f)

StoreSpec == StoreInit /\ [][StoreNext]_storeVars
=============================================================================
