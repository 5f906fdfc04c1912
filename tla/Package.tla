------------------------------ MODULE Package -------------------------------
(***************************************************************************)
(* Toy Homebrew Binaries and Toy NROs: save_package and load_package of    *)
(* homebrew_package.cpp and nro_package.cpp, and main() around them, which *)
(* assembles or loads a program, chooses the loaders by the name of the    *)
(* file, and writes the packages it is asked for.                          *)
(*                                                                         *)
(* A file is a sequence of units: the header, the name (NRO only), each    *)
(* word, each patch, each symbol.  A unit of which only a part is there    *)
(* counts as missing, since read_exact refuses both.  Between save_package *)
(* and the file lies the buffer of the ofstream: a write may stay there,   *)
(* reach the file or fail when the disk is full, and so may the flush in   *)
(* the destructor, whose failure nobody sees.  The process may be killed   *)
(* between any two steps; the files stay as they are.                      *)
(***************************************************************************)
EXTENDS Integers, Sequences, FiniteSets, Ranks

CONSTANTS
  Path, Extension,  (* the files and how their names end: "thb", "nro" or  *)
                    (* "other", which only --package loads as a package    *)
  Words, Patches,
  Programs,         (* programs as the assembler returns them              *)
  Name,             (* the name main() stores in an NRO                    *)
  NoFile, Damaged, None

Format == {"THB", "NRO"}

ASSUME PackageAssumption ==
  /\ Extension \in [Path -> {"thb", "nro", "other"}]
  /\ \A p \in Programs :
       /\ p = [code |-> p.code, data_segments |-> p.data_segments, symbols |-> p.symbols]
       /\ p.code \in Seq(Words) /\ p.data_segments \in Seq(Patches)
       /\ IsFiniteSet(DOMAIN p.symbols) /\ p.symbols \in [DOMAIN p.symbols -> Nat]
  /\ None \notin Programs /\ None \notin Path
  /\ {NoFile, Damaged} \cap [format : Format, program : Programs] = {}

(* The units of a package.                                                 *)
Symbol == UNION {DOMAIN p.symbols : p \in Programs}
Unit ==
  [magic : Format, code : Nat, segments : Nat, symbols : Nat]
  \cup [name : {Name}] \cup [word : Words] \cup [segment : Patches]
  \cup [symbol : Symbol, value : Nat]

ASSUME UnitAssumption == NoFile \notin Seq(Unit)

VARIABLES
  files,     (* the units in each file, or NoFile                          *)
  stage,     (* of the process: "idle" (none), "loading", "ready" (it has  *)
             (* a program and saves what is left of its options), "saving" *)
  program,   (* main()'s program, or None                                  *)
  path,      (* the file being loaded                                      *)
  loaders,   (* the formats still to be tried on it, the current first     *)
  pos, acc,  (* the next unit of the file, and load_package's program      *)
  saves,     (* the packages still to be written, the current first        *)
  rest, buffer,  (* what save_package has still to write, and what lies in *)
                 (* the buffer of the stream                               *)
  verdict,   (* how the load ended: "none", "loaded" or "refused"          *)
  wrote, lost,   (* the paths last reported as written, and those whose    *)
                 (* last flush failed                                      *)
  image, origin  (* history: what the last save of a path set out to       *)
                 (* write, and the program it was                          *)

loadVars == <<path, loaders, pos, acc>>
saveVars == <<saves, rest, buffer>>
historyVars == <<wrote, lost, image, origin>>
pkgVars == <<files, stage, program, loadVars, saveVars, verdict, historyVars>>
-----------------------------------------------------------------------------
(* The layout.  The symbols come in the order of an unordered_map.         *)
Header(p, f) ==
  [magic |-> f, code |-> Len(p.code), segments |-> Len(p.data_segments),
   symbols |-> Cardinality(DOMAIN p.symbols)]
Orders(S) == {o \in [1 .. Cardinality(S) -> S] : \A n \in S : \E i \in DOMAIN o : o[i] = n}

(* The units before the words, and where each part ends, from the counts   *)
(* in the header.                                                          *)
Front(f) == IF f = "NRO" THEN 2 ELSE 1
EndOfCode(h) == Front(h.magic) + h.code
EndOfSegments(h) == EndOfCode(h) + h.segments
EndOfSymbols(h) == EndOfSegments(h) + h.symbols

Serial(p, f, order) ==
  LET h == Header(p, f)
  IN  [k \in 1 .. EndOfSymbols(h) |->
        CASE k = 1 -> h
          [] k \in 2 .. Front(f) -> [name |-> Name]
          [] k \in Front(f) + 1 .. EndOfCode(h) -> [word |-> p.code[k - Front(f)]]
          [] k \in EndOfCode(h) + 1 .. EndOfSegments(h) ->
               [segment |-> p.data_segments[k - EndOfCode(h)]]
          [] k > EndOfSegments(h) ->
               LET n == order[k - EndOfSegments(h)] IN [symbol |-> n, value |-> p.symbols[n]]]

(* The loaders main() tries on a path.                                     *)
LoadersFor(p) ==
  CASE Extension[p] = "nro" -> <<"NRO">>
    [] Extension[p] = "thb" -> <<"THB">>
    [] Extension[p] = "other" -> <<"THB", "NRO">>

NoProgram == [code |-> <<>>, data_segments |-> <<>>, symbols |-> <<>>]
Foreign == <<[foreign |-> TRUE]>>   \* a file that is no package at all
-----------------------------------------------------------------------------
PkgInit ==
  /\ files \in [Path -> {NoFile, Foreign}]
  /\ stage = "idle" /\ program = None
  /\ path = None /\ loaders = <<>> /\ pos = 1 /\ acc = NoProgram
  /\ saves = <<>> /\ rest = <<>> /\ buffer = <<>>
  /\ verdict = "none" /\ wrote = {} /\ lost = {}
  /\ image = [p \in Path |-> <<>>] /\ origin = [p \in Path |-> None]

(* The variables of load_package go out of scope.                          *)
NoLoad == path' = None /\ loaders' = <<>> /\ pos' = 1 /\ acc' = NoProgram

(* --emit-thb and --emit-nro, in the order main() serves them.             *)
Option(f) == {<<>>} \cup {<<[path |-> p, format |-> f]>> : p \in Path}

Start(next) ==
  /\ stage = "idle" /\ stage' = next /\ verdict' = "none"
  /\ \E thb \in Option("THB"), nro \in Option("NRO") : saves' = thb \o nro
  /\ UNCHANGED <<files, rest, buffer, historyVars>>

(* From a source, standard input or the built-in showcase.                 *)
StartAssembling ==
  /\ Start("ready")
  /\ program' \in Programs
  /\ UNCHANGED loadVars

StartLoading(p) ==
  /\ Start("loading")
  /\ path' = p /\ loaders' = LoadersFor(p) /\ pos' = 1 /\ acc' = NoProgram
  /\ UNCHANGED program

(* load_package *)
File == files[path]
Readable == File # NoFile /\ pos <= Len(File)
GoodHeader == Readable /\ "magic" \in DOMAIN File[1] /\ File[1].magic = loaders[1]

Loading == stage = "loading" /\ UNCHANGED <<files, rest, buffer, historyVars>>

ReadHeader ==
  /\ Loading /\ pos = 1 /\ GoodHeader
  /\ pos' = 2
  /\ UNCHANGED <<stage, program, path, loaders, acc, saves, verdict>>

(* The program with the unit read; emplace keeps a symbol that is there.   *)
Expected ==
  LET h == File[1]
      codeHere == pos \in Front(h.magic) + 1 .. EndOfCode(h)
      segmentHere == pos \in EndOfCode(h) + 1 .. EndOfSegments(h)
  IN  [code |-> IF codeHere THEN Append(acc.code, File[pos].word) ELSE acc.code,
       data_segments |->
         IF segmentHere THEN Append(acc.data_segments, File[pos].segment) ELSE acc.data_segments,
       symbols |->
         IF pos <= EndOfSegments(h) THEN acc.symbols
         ELSE [n \in DOMAIN acc.symbols \cup {File[pos].symbol} |->
                IF n \in DOMAIN acc.symbols THEN acc.symbols[n] ELSE File[pos].value]]

ReadUnit ==
  /\ Loading /\ pos > 1 /\ pos <= EndOfSymbols(File[1]) /\ Readable
  /\ acc' = Expected /\ pos' = pos + 1
  /\ UNCHANGED <<stage, program, path, loaders, saves, verdict>>

LoadedShort == pos > EndOfSegments(File[1])                            \* mutant
LoadedAll == pos > EndOfSymbols(File[1])

LoadDone ==
  /\ Loading /\ pos > 1 /\ LoadedAll
  /\ program' = acc /\ stage' = "ready" /\ verdict' = "loaded"
  /\ NoLoad /\ UNCHANGED saves

(* An exception: the file does not open, the magic is another, or the file *)
(* ends early.  main() tries the next loader, if there is one.             *)
LoaderThrows == IF pos = 1 THEN ~GoodHeader ELSE ~LoadedAll /\ ~Readable

NextLoaderAgain ==                                                     \* mutant
  /\ Loading /\ LoaderThrows /\ Len(loaders) > 1
  /\ pos' = 1 /\ acc' = NoProgram
  /\ UNCHANGED <<stage, program, path, loaders, saves, verdict>>
NextLoader ==
  /\ Loading /\ LoaderThrows /\ Len(loaders) > 1
  /\ loaders' = Tail(loaders) /\ pos' = 1 /\ acc' = NoProgram
  /\ UNCHANGED <<stage, program, path, saves, verdict>>

Refused ==
  /\ Loading /\ LoaderThrows /\ Len(loaders) = 1
  /\ stage' = "idle" /\ verdict' = "refused"
  /\ saves' = <<>> /\ NoLoad /\ UNCHANGED program
-----------------------------------------------------------------------------
(* save_package: open and truncate, write unit by unit, and close when the *)
(* stream goes out of scope.                                               *)
Target == saves[1].path

OpenAppending ==                                                       \* mutant
  /\ stage = "ready" /\ saves # <<>> /\ stage' = "saving"
  /\ \E order \in Orders(DOMAIN program.symbols) :
       /\ rest' = Serial(program, saves[1].format, order)
       /\ image' = [image EXCEPT ![Target] = rest']
  /\ files' = [files EXCEPT ![Target] = IF @ \in {NoFile, Foreign} THEN <<>> ELSE @]
  /\ origin' = [origin EXCEPT ![Target] = program]
  /\ buffer' = <<>> /\ wrote' = wrote \ {Target} /\ lost' = lost \ {Target}
  /\ UNCHANGED <<program, loadVars, saves, verdict>>
OpenForWriting ==
  /\ stage = "ready" /\ saves # <<>> /\ stage' = "saving"
  /\ \E order \in Orders(DOMAIN program.symbols) :
       /\ rest' = Serial(program, saves[1].format, order)
       /\ image' = [image EXCEPT ![Target] = rest']
  /\ files' = [files EXCEPT ![Target] = <<>>]
  /\ origin' = [origin EXCEPT ![Target] = program]
  /\ buffer' = <<>> /\ wrote' = wrote \ {Target} /\ lost' = lost \ {Target}
  /\ UNCHANGED <<program, loadVars, saves, verdict>>

(* The end of the process, and what it leaves of its memory: nothing.      *)
Stop ==
  /\ stage' = "idle" /\ program' = None /\ verdict' = "none"
  /\ saves' = <<>> /\ rest' = <<>> /\ buffer' = <<>> /\ NoLoad
  /\ UNCHANGED <<image, origin>>

OpenFails ==
  /\ stage = "ready" /\ saves # <<>>
  /\ Stop /\ UNCHANGED <<files, wrote, lost>>

(* units reach the file, all or only the first n.                          *)
Reaches(units, n) == files' = [files EXCEPT ![Target] = @ \o SubSeq(units, 1, n)]

WriteBuffered ==
  /\ stage = "saving" /\ rest # <<>>
  /\ buffer' = Append(buffer, rest[1]) /\ rest' = Tail(rest)
  /\ UNCHANGED <<files, stage, program, loadVars, saves, verdict, historyVars>>

WriteThroughTail ==                                                    \* mutant
  /\ stage = "saving" /\ rest # <<>>
  /\ files' = [files EXCEPT ![Target] = Append(@, rest[1])]
  /\ buffer' = <<>> /\ rest' = Tail(rest)
  /\ UNCHANGED <<stage, program, loadVars, saves, verdict, historyVars>>
WriteThrough ==
  /\ stage = "saving" /\ rest # <<>>
  /\ Reaches(Append(buffer, rest[1]), Len(buffer) + 1)
  /\ buffer' = <<>> /\ rest' = Tail(rest)
  /\ UNCHANGED <<stage, program, loadVars, saves, verdict, historyVars>>

(* write_exact throws: main() reports the failure and returns.             *)
WriteFails ==
  /\ stage = "saving" /\ rest # <<>>
  /\ \E n \in 0 .. Len(buffer) : Reaches(buffer, n)
  /\ Stop /\ UNCHANGED <<wrote, lost>>

Close ==
  /\ stage = "saving" /\ rest = <<>>
  /\ \E n \in 0 .. Len(buffer) :
       /\ Reaches(buffer, n)
       /\ lost' = IF n < Len(buffer) THEN lost \cup {Target} ELSE lost
  /\ wrote' = wrote \cup {Target}
  /\ buffer' = <<>> /\ saves' = Tail(saves) /\ stage' = "ready"
  /\ UNCHANGED <<program, loadVars, rest, verdict, image, origin>>

(* main() goes on to run the program and returns.                          *)
Return ==
  /\ stage = "ready" /\ saves = <<>>
  /\ Stop /\ UNCHANGED <<files, wrote, lost>>

Kill ==
  /\ stage # "idle"
  /\ Stop /\ UNCHANGED <<files, wrote, lost>>

Steps ==
  \/ ReadHeader \/ ReadUnit \/ LoadDone \/ NextLoader \/ Refused
  \/ OpenForWriting \/ OpenFails \/ WriteBuffered \/ WriteThrough \/ WriteFails \/ Close \/ Return

PkgNext == StartAssembling \/ (\E p \in Path : StartLoading(p)) \/ Steps \/ Kill

(* A process that has started goes on: it waits for nothing.               *)
PkgSpec == PkgInit /\ [][PkgNext]_pkgVars /\ WF_pkgVars(Steps)
-----------------------------------------------------------------------------

IsPrefixOf(s, t) == Len(s) <= Len(t) /\ s = SubSeq(t, 1, Len(s))
Savings == {[path |-> p, format |-> f] : p \in Path, f \in Format}

PkgTypeOK ==
  /\ stage \in {"idle", "loading", "ready", "saving"}
  /\ program \in Programs \cup {None} /\ (program = None <=> stage \in {"idle", "loading"})
  /\ path \in Path \cup {None} /\ (path # None <=> stage = "loading") /\ pos \in Nat \ {0} /\ loaders \in Seq(Format)
  /\ stage = "loading" => loaders # <<>>
  /\ saves \in Seq(Savings) /\ (stage = "saving" => saves # <<>>)
  /\ stage # "saving" => rest = <<>> /\ buffer = <<>>
  /\ verdict \in {"none", "loaded", "refused"}
  /\ wrote \in SUBSET Path /\ lost \in SUBSET Path
  /\ origin \in [Path -> Programs \cup {None}]
  /\ \A p \in Path : files[p] \in {NoFile, Foreign} \/ IsPrefixOf(files[p], image[p])

(* A file holds all that was to be written.                                *)
Whole(p) == origin[p] # None /\ files[p] = image[p]

(* What a path holds, for a reader who knows who saved it.                 *)
Stored ==
  [p \in Path |->
    IF files[p] = NoFile THEN NoFile
    ELSE IF Whole(p) THEN [format |-> image[p][1].magic, program |-> origin[p]] ELSE Damaged]

Store == INSTANCE PackageStore WITH
  stored <- Stored, Accepts <- [p \in Path |-> {LoadersFor(p)[k] : k \in DOMAIN LoadersFor(p)}]

(* Saving and loading, unit by unit and through a buffer, with a process   *)
(* that may die between any two steps, implement the store of programs: a  *)
(* package is loaded as the program it was saved from or refused as a      *)
(* whole, and no whole package is refused (load_package, save_package and  *)
(* the choice of the loader in main()).                                    *)
StoreImplemented == Store!StoreSpec

(* A package reported as written is whole, whatever part of it passed      *)
(* through the buffer and when, unless the last flush failed.              *)
ReportedIsWhole == \A p \in wrote \ lost : Whole(p)

(* Every process comes to its end: each loader runs out of units or of     *)
(* file, and every save out of units.                                      *)
ProcessEnds == (stage # "idle") ~> (stage = "idle")

(* Each step of a process leaves less to do, whatever the files hold and   *)
(* however the disk answers: a phase, a loader or a save, or a unit of the *)
(* file or of the save.  No loader is tried twice, and no unit is read or  *)
(* written a second time (load_package, save_package, main()).             *)
PhasesLeft == IF stage = "idle" THEN 0 ELSE IF stage = "loading" THEN 2 ELSE 1
JobsLeft ==
  IF stage = "loading" THEN Len(loaders)
  ELSE IF stage = "saving" THEN 2 * Len(saves) ELSE 2 * Len(saves) + 1
UnitsLeft ==
  IF stage # "loading" THEN Len(rest) ELSE IF File = NoFile THEN 0 ELSE Len(File) + 1 - pos
ProcessShrinks ==
  [][stage # "idle" =>
       Descends(<<PhasesLeft, JobsLeft, UnitsLeft>>, <<PhasesLeft', JobsLeft', UnitsLeft'>>)]_pkgVars

(* Line 576 of main.cpp, "Wrote Toy Homebrew Binary to", and line 586:     *)
(* what the program says it wrote is in the file.                          *)
WroteIsWhole == \A p \in wrote : Whole(p)
=============================================================================
