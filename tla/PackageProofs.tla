---------------------------- MODULE PackageProofs ----------------------------
(***************************************************************************)
(* That the packages implement the store of programs (PackageStore), that  *)
(* a reported package is whole, and the types of Package, for every set of *)
(* paths, names of files and programs.                                     *)
(*                                                                         *)
(* The argument: a file is always the beginning of an image, the image is  *)
(* the serial form of a program (SerialOf), a loader that has read k units *)
(* holds what the first k units of the image say (Reading), and what a     *)
(* save has still to write is the end of the image (SaveInv).              *)
(***************************************************************************)
EXTENDS Package, SequenceTheorems, FiniteSetTheorems, TLAPS

(* A function on 1 .. n is a sequence of that length.                      *)
LEMMA Tuple ==
  ASSUME NEW S, NEW n \in Nat, NEW f \in [1 .. n -> S]
  PROVE  f \in Seq(S) /\ Len(f) = n
<1>1. f \in Seq(S)
  BY SeqDef
<1>2. Len(f) \in Nat /\ 1 .. Len(f) = 1 .. n
  BY <1>1, LenProperties
<1> QED
  BY <1>1, <1>2

(* The fields of a program.                                                *)
LEMMA ProgramFields ==
  ASSUME NEW P \in Programs
  PROVE  /\ P = [code |-> P.code, data_segments |-> P.data_segments, symbols |-> P.symbols]
         /\ P.code \in Seq(Words) /\ P.data_segments \in Seq(Patches)
         /\ Len(P.code) \in Nat /\ Len(P.data_segments) \in Nat
         /\ Cardinality(DOMAIN P.symbols) \in Nat
         /\ P.symbols \in [DOMAIN P.symbols -> Nat]
         /\ DOMAIN P.symbols \subseteq Symbol
         /\ P # None
<1>1. IsFiniteSet(DOMAIN P.symbols)
  BY PackageAssumption
<1>2. Cardinality(DOMAIN P.symbols) \in Nat
  BY <1>1, FS_CardinalityType
<1>3. /\ P = [code |-> P.code, data_segments |-> P.data_segments, symbols |-> P.symbols]
      /\ P.code \in Seq(Words) /\ P.data_segments \in Seq(Patches)
      /\ P.symbols \in [DOMAIN P.symbols -> Nat] /\ P # None
  BY PackageAssumption
<1>4. Len(P.code) \in Nat /\ Len(P.data_segments) \in Nat
  BY <1>3, LenProperties
<1>5. DOMAIN P.symbols \subseteq Symbol
  BY DEF Symbol
<1> QED BY <1>2, <1>3, <1>4, <1>5

LEMMA HeaderTyped ==
  ASSUME NEW P \in Programs, NEW f \in Format
  PROVE  LET h == Header(P, f)
         IN  /\ h \in Unit /\ h.magic = f
             /\ Front(f) \in {1, 2}
             /\ EndOfCode(h) = Front(f) + Len(P.code)
             /\ EndOfSegments(h) = EndOfCode(h) + Len(P.data_segments)
             /\ EndOfSymbols(h) = EndOfSegments(h) + Cardinality(DOMAIN P.symbols)
BY ProgramFields DEF Header, Unit, Front, EndOfCode, EndOfSegments, EndOfSymbols, Format

(* s is what save_package writes of P, in some format and order.           *)
SerialOf(s, P) ==
  LET h == s[1]
  IN  /\ s \in Seq(Unit) /\ h.magic \in Format /\ h = Header(P, h.magic)
      /\ Len(s) = EndOfSymbols(h)
      /\ \A k \in Front(h.magic) + 1 .. EndOfCode(h) : s[k].word = P.code[k - Front(h.magic)]
      /\ \A k \in EndOfCode(h) + 1 .. EndOfSegments(h) :
           s[k].segment = P.data_segments[k - EndOfCode(h)]
      /\ \A k \in EndOfSegments(h) + 1 .. EndOfSymbols(h) :
           s[k].symbol \in DOMAIN P.symbols /\ s[k].value = P.symbols[s[k].symbol]
      /\ \A n \in DOMAIN P.symbols :
           \E k \in EndOfSegments(h) + 1 .. EndOfSymbols(h) : s[k].symbol = n

LEMMA SerialIs ==
  ASSUME NEW P \in Programs, NEW f \in Format, NEW order \in Orders(DOMAIN P.symbols)
  PROVE  SerialOf(Serial(P, f, order), P) /\ Serial(P, f, order)[1].magic = f
<1> DEFINE h == Header(P, f)
           s == Serial(P, f, order)
           F == Front(f)
           C == EndOfCode(h)
           D == EndOfSegments(h)
           E == EndOfSymbols(h)
           c == Len(P.code)
           d == Len(P.data_segments)
           m == Cardinality(DOMAIN P.symbols)
<1>1. /\ h \in Unit /\ h.magic = f /\ Front(h.magic) = F
      /\ F \in {1, 2} /\ C = F + c /\ D = C + d /\ E = D + m
      /\ c \in Nat /\ d \in Nat /\ m \in Nat
      /\ F \in Int /\ C \in Int /\ D \in Int /\ E \in Nat
  BY HeaderTyped, ProgramFields
<1>2. order \in [1 .. m -> DOMAIN P.symbols] /\ \A n \in DOMAIN P.symbols : \E i \in 1 .. m : order[i] = n
  BY DEF Orders
<1> DEFINE e(k) ==
        CASE k = 1 -> h
          [] k \in 2 .. F -> [name |-> Name]
          [] k \in F + 1 .. C -> [word |-> P.code[k - F]]
          [] k \in C + 1 .. D -> [segment |-> P.data_segments[k - C]]
          [] k > D -> [symbol |-> order[k - D], value |-> P.symbols[order[k - D]]]
<1>3. s = [k \in 1 .. E |-> e(k)]
  BY <1>1 DEF Serial
<1> HIDE DEF h, F, C, D, E, c, d, m
<1>4. e(1) = h
  BY <1>1
<1>5. \A k \in F + 1 .. C : e(k) = [word |-> P.code[k - F]]
  BY <1>1
<1>6. \A k \in C + 1 .. D : e(k) = [segment |-> P.data_segments[k - C]]
  BY <1>1
<1>7. \A k \in D + 1 .. E : e(k) = [symbol |-> order[k - D], value |-> P.symbols[order[k - D]]]
  BY <1>1
<1>8. \A k \in 2 .. F : e(k) = [name |-> Name]
  BY <1>1
<1> HIDE DEF e
<1>9. ASSUME NEW k \in 1 .. E PROVE e(k) \in Unit
  <2>1. CASE k = 1
    BY <2>1, <1>4, <1>1
  <2>2. CASE k \in 2 .. F
    BY <2>2, <1>8 DEF Unit
  <2>3. CASE k \in F + 1 .. C
    <3>1. k - F \in 1 .. c
      BY <2>3, <1>1
    <3>2. P.code[k - F] \in Words
      BY <3>1, ProgramFields, ElementOfSeq DEF c
    <3> QED BY <2>3, <3>2, <1>5 DEF Unit
  <2>4. CASE k \in C + 1 .. D
    <3>1. k - C \in 1 .. d
      BY <2>4, <1>1
    <3>2. P.data_segments[k - C] \in Patches
      BY <3>1, ProgramFields, ElementOfSeq DEF d
    <3> QED BY <2>4, <3>2, <1>6 DEF Unit
  <2>5. CASE k \in D + 1 .. E
    <3>1. k - D \in 1 .. m
      BY <2>5, <1>1
    <3>2. order[k - D] \in Symbol /\ P.symbols[order[k - D]] \in Nat
      BY <3>1, <1>2, ProgramFields
    <3> QED BY <2>5, <3>2, <1>7 DEF Unit
  <2> QED BY <2>1, <2>2, <2>3, <2>4, <2>5, <1>1
<1>10. s \in Seq(Unit) /\ Len(s) = E
  <2>1. s \in [1 .. E -> Unit]
    BY <1>3, <1>9
  <2> QED BY <2>1, <1>1, Tuple
<1>11. s[1] = h
  <2>1. 1 \in 1 .. E
    BY <1>1
  <2> QED BY <2>1, <1>3, <1>4
<1>12. \A k \in F + 1 .. C : s[k].word = P.code[k - F]
  BY <1>1, <1>3, <1>5
<1>13. \A k \in C + 1 .. D : s[k].segment = P.data_segments[k - C]
  BY <1>1, <1>3, <1>6
<1>14. \A k \in D + 1 .. E :
         s[k].symbol = order[k - D] /\ s[k].value = P.symbols[order[k - D]]
  BY <1>1, <1>3, <1>7
<1>15. \A k \in D + 1 .. E :
         s[k].symbol \in DOMAIN P.symbols /\ s[k].value = P.symbols[s[k].symbol]
  <2> TAKE k \in D + 1 .. E
  <2>1. k - D \in 1 .. m
    BY <1>1
  <2> QED BY <2>1, <1>2, <1>14
<1>16. \A n \in DOMAIN P.symbols : \E k \in D + 1 .. E : s[k].symbol = n
  <2> TAKE n \in DOMAIN P.symbols
  <2>1. PICK i \in 1 .. m : order[i] = n
    BY <1>2
  <2>2. PICK k \in Int : k = D + i
    BY <1>1
  <2>3. k \in D + 1 .. E /\ k - D = i
    BY <1>1, <2>2
  <2>4. s[k].symbol = n
    BY <2>1, <2>3, <1>14
  <2> QED BY <2>3, <2>4
<1> QED
  BY <1>1, <1>10, <1>11, <1>12, <1>13, <1>15, <1>16 DEF SerialOf, h, F, C, D, E
-----------------------------------------------------------------------------
(* The invariant.  The process: its stage goes with the program it has.    *)
ProcInv ==
  /\ stage \in {"idle", "loading", "ready", "saving"}
  /\ program \in Programs \cup {None} /\ (program = None <=> stage \in {"idle", "loading"})
  /\ path \in Path \cup {None} /\ (path # None <=> stage = "loading")
  /\ saves \in Seq(Savings) /\ (stage = "saving" => saves # <<>>)
  /\ verdict \in {"none", "loaded", "refused"}
  /\ wrote \in SUBSET Path /\ lost \in SUBSET Path

Begins(s, t) ==
  /\ Len(s) <= Len(t)
  /\ \A i \in 1 .. Len(s) : s[i] = t[i]

(* The files: what nobody has saved, or the beginning of an image.         *)
Unsaved(p) == files[p] \in {NoFile, Foreign} /\ origin[p] = None
Saved(p) ==
  /\ origin[p] \in Programs /\ SerialOf(image[p], origin[p])
  /\ files[p] \in Seq(Unit) /\ Begins(files[p], image[p])
FileInv ==
  /\ files \in [Path -> Seq(Unit) \cup {NoFile, Foreign}]
  /\ image \in [Path -> Seq(Unit)] /\ origin \in [Path -> Programs \cup {None}]
  /\ \A p \in Path : Unsaved(p) \/ Saved(p)

(* A loader that has read the units before pos.                            *)
Formats(p) == {LoadersFor(p)[k] : k \in DOMAIN LoadersFor(p)}
Clip(x, n) == IF x < 0 THEN 0 ELSE IF x > n THEN n ELSE x
Agree(c, w, n) == Len(c) = n /\ \A i \in 1 .. Len(c) : c[i] = w[i]
Reading ==
  LET P == origin[path]
      s == image[path]
      h == s[1]
  IN  /\ Saved(path) /\ pos - 1 <= Len(files[path]) /\ h.magic = loaders[1]
      /\ acc = [code |-> acc.code, data_segments |-> acc.data_segments, symbols |-> acc.symbols]
      /\ acc.code \in Seq(Words)
      /\ Agree(acc.code, P.code, Clip(pos - 1 - Front(h.magic), Len(P.code)))
      /\ acc.data_segments \in Seq(Patches)
      /\ Agree(acc.data_segments, P.data_segments, Clip(pos - 1 - EndOfCode(h), Len(P.data_segments)))
      /\ acc.symbols \in [DOMAIN acc.symbols -> Nat]
      /\ DOMAIN acc.symbols = {s[k].symbol : k \in EndOfSegments(h) + 1 .. pos - 1}
      /\ \A n \in DOMAIN acc.symbols : acc.symbols[n] = P.symbols[n]

LoadInv ==
  /\ pos \in Nat \ {0} /\ loaders \in Seq(Format)
  /\ stage = "loading" =>
       /\ loaders # <<>>
       /\ \A k \in 1 .. Len(loaders) : loaders[k] \in Formats(path)
       /\ pos = 1 => acc = NoProgram
       /\ pos > 1 => Reading
       /\ Whole(path) /\ image[path][1].magic \in Formats(path) =>
            \E k \in 1 .. Len(loaders) : loaders[k] = image[path][1].magic

(* What is written, buffered and still to be written are the image.        *)
Parts(f, b, r, im) ==
  /\ Len(f) + Len(b) + Len(r) = Len(im)
  /\ \A i \in 1 .. Len(f) : f[i] = im[i]
  /\ \A i \in 1 .. Len(b) : b[i] = im[Len(f) + i]
  /\ \A i \in 1 .. Len(r) : r[i] = im[Len(f) + Len(b) + i]
SaveInv ==
  /\ rest \in Seq(Unit) /\ buffer \in Seq(Unit)
  /\ stage # "saving" => rest = <<>> /\ buffer = <<>>
  /\ stage = "saving" =>
       /\ origin[Target] = program /\ image[Target][1].magic = saves[1].format
       /\ Parts(files[Target], buffer, rest, image[Target])

PkgInv == ProcInv /\ FileInv /\ LoadInv /\ SaveInv /\ ReportedIsWhole

LEMMA LoadersTyped ==
  ASSUME NEW p \in Path
  PROVE  /\ LoadersFor(p) \in Seq(Format) /\ LoadersFor(p) # <<>>
         /\ \A k \in 1 .. Len(LoadersFor(p)) : LoadersFor(p)[k] \in Formats(p)
         /\ \A f \in Formats(p) : \E k \in 1 .. Len(LoadersFor(p)) : LoadersFor(p)[k] = f
<1>1. Extension[p] \in {"thb", "nro", "other"}
  BY PackageAssumption
<1>2. LoadersFor(p) \in {<<"NRO">>, <<"THB">>, <<"THB", "NRO">>}
  BY <1>1 DEF LoadersFor
<1>a. "THB" \in Format /\ "NRO" \in Format
  BY DEF Format
<1>3. LoadersFor(p) \in Seq(Format) /\ LoadersFor(p) # <<>>
  <2>1. CASE LoadersFor(p) = <<"NRO">>
    BY <2>1, <1>a
  <2>2. CASE LoadersFor(p) = <<"THB">>
    BY <2>2, <1>a
  <2>3. CASE LoadersFor(p) = <<"THB", "NRO">>
    BY <2>3, <1>a
  <2> QED BY <1>2, <2>1, <2>2, <2>3
<1>4. DOMAIN LoadersFor(p) = 1 .. Len(LoadersFor(p))
  BY <1>3, LenProperties
<1> QED BY <1>3, <1>4 DEF Formats

LEMMA TargetTyped ==
  ASSUME saves \in Seq(Savings), saves # <<>>
  PROVE  /\ Target \in Path /\ saves[1].format \in Format
         /\ Tail(saves) \in Seq(Savings)
<1>1. 1 \in 1 .. Len(saves) /\ Tail(saves) \in Seq(Savings)
  BY EmptySeq, HeadTailProperties
<1>2. saves[1] \in Savings
  BY <1>1, ElementOfSeq
<1> QED BY <1>1, <1>2 DEF Target, Savings

(* What a file that was saved holds of its header.                         *)
LEMMA SavedTyped ==
  ASSUME NEW p \in Path, FileInv, Saved(p)
  PROVE  LET P == origin[p]
             h == image[p][1]
             f == h.magic
         IN  /\ P \in Programs /\ P # None /\ files[p] # NoFile
             /\ f \in Format /\ h = Header(P, f) /\ Front(f) \in {1, 2}
             /\ EndOfCode(h) = Front(f) + Len(P.code)
             /\ EndOfSegments(h) = EndOfCode(h) + Len(P.data_segments)
             /\ EndOfSymbols(h) = EndOfSegments(h) + Cardinality(DOMAIN P.symbols)
             /\ Len(P.code) \in Nat /\ Len(P.data_segments) \in Nat
             /\ Cardinality(DOMAIN P.symbols) \in Nat
             /\ Len(image[p]) = EndOfSymbols(h) /\ Len(files[p]) \in Nat
             /\ Len(files[p]) <= Len(image[p])
             /\ Len(files[p]) >= 1 => files[p][1] = h
<1>1. /\ origin[p] \in Programs /\ image[p][1].magic \in Format
      /\ image[p][1] = Header(origin[p], image[p][1].magic)
      /\ Len(image[p]) = EndOfSymbols(image[p][1]) /\ files[p] \in Seq(Unit)
      /\ Begins(files[p], image[p])
  BY DEF Saved, SerialOf
<1>2. files[p] # NoFile
  BY <1>1, UnitAssumption
<1>3. Len(files[p]) \in Nat
  BY <1>1, LenProperties
<1>4. Len(files[p]) <= Len(image[p]) /\ (Len(files[p]) >= 1 => files[p][1] = image[p][1])
  BY <1>1, <1>3 DEF Begins
<1> QED BY <1>1, <1>2, <1>3, <1>4, ProgramFields, HeaderTyped

LEMMA NoHeader ==
  ASSUME NEW p \in Path, Unsaved(p), path = p
  PROVE  ~GoodHeader
<1>1. CASE files[p] = NoFile
  BY <1>1 DEF GoodHeader, Readable, File
<1>2. CASE files[p] = Foreign
  <2>1. DOMAIN Foreign[1] = {"foreign"}
    BY DEF Foreign
  <2> QED BY <1>2, <2>1 DEF GoodHeader, File
<1> QED BY <1>1, <1>2 DEF Unsaved

(* A loader never throws on a whole package of its own format.             *)
LEMMA WholeIsRead ==
  ASSUME PkgInv, stage = "loading", LoaderThrows, Whole(path)
  PROVE  image[path][1].magic # loaders[1]
<1>1. path \in Path
  BY DEF PkgInv, ProcInv
<1>2. Saved(path)
  BY <1>1 DEF PkgInv, FileInv, Unsaved, Whole
<1>3. FileInv /\ ProcInv /\ LoadInv
  BY DEF PkgInv
<1> DEFINE P == origin[path]
           h == image[path][1]
           f == h.magic
<1>4. /\ files[path] # NoFile /\ f \in Format /\ h = Header(P, f) /\ Front(f) \in {1, 2}
      /\ Len(P.code) \in Nat /\ Len(P.data_segments) \in Nat /\ Cardinality(DOMAIN P.symbols) \in Nat
      /\ EndOfCode(h) = Front(f) + Len(P.code)
      /\ EndOfSegments(h) = EndOfCode(h) + Len(P.data_segments)
      /\ EndOfSymbols(h) = EndOfSegments(h) + Cardinality(DOMAIN P.symbols)
      /\ Len(image[path]) = EndOfSymbols(h)
  BY <1>1, <1>2, <1>3, SavedTyped
<1>5. File = image[path] /\ File[1] = h /\ Len(File) = EndOfSymbols(h) /\ File # NoFile
  BY <1>4 DEF Whole, File
<1> HIDE DEF P, h, f
<1>6. EndOfSymbols(h) \in Nat /\ EndOfSymbols(h) >= 1
  BY <1>4
<1>7. pos \in Nat \ {0}
  BY <1>3 DEF LoadInv
<1>8. CASE pos = 1
  <2>1. ~GoodHeader
    BY <1>8 DEF LoaderThrows
  <2>2. Readable
    BY <1>5, <1>6, <1>8 DEF Readable
  <2>3. "magic" \in DOMAIN File[1]
    BY <1>4, <1>5 DEF Header
  <2> QED BY <1>5, <2>1, <2>2, <2>3 DEF GoodHeader
<1>9. CASE pos # 1
  <2>1. ~LoadedAll /\ ~Readable
    BY <1>9 DEF LoaderThrows
  <2>2. pos <= Len(File)
    BY <2>1, <1>5, <1>6, <1>7 DEF LoadedAll
  <2> QED BY <2>1, <2>2, <1>5 DEF Readable
<1> QED BY <1>8, <1>9
-----------------------------------------------------------------------------
(* What the start of a process and its end preserve.                       *)
LEMMA FilesKept ==
  ASSUME FileInv, ReportedIsWhole, UNCHANGED <<files, historyVars>>
  PROVE  FileInv' /\ ReportedIsWhole'
BY DEF FileInv, ReportedIsWhole, Unsaved, Saved, Whole, historyVars

LEMMA OptionTyped ==
  ASSUME NEW f \in Format, NEW o \in Option(f)
  PROVE  o \in Seq(Savings)
<1>1. CASE o = <<>>
  BY <1>1
<1>2. ASSUME NEW p \in Path, o = <<[path |-> p, format |-> f]>>
      PROVE  o \in Seq(Savings)
  <2>1. [path |-> p, format |-> f] \in Savings
    BY DEF Savings
  <2> QED BY <1>2, <2>1
<1> QED BY <1>1, <1>2 DEF Option

LEMMA StartSaves ==
  ASSUME NEW next, Start(next)
  PROVE  saves' \in Seq(Savings)
<1>1. PICK thb \in Option("THB"), nro \in Option("NRO") : saves' = thb \o nro
  BY DEF Start
<1>2. thb \in Seq(Savings) /\ nro \in Seq(Savings)
  BY OptionTyped DEF Format
<1> QED BY <1>1, <1>2, ConcatProperties

LEMMA StartKeeps ==
  ASSUME PkgInv, NEW next \in {"ready", "loading"}, Start(next)
  PROVE  FileInv' /\ ReportedIsWhole' /\ SaveInv' /\ saves' \in Seq(Savings)
<1>1. FileInv' /\ ReportedIsWhole'
  BY FilesKept DEF Start, PkgInv
<1>2. saves' \in Seq(Savings)
  BY StartSaves
<1>3. SaveInv'
  BY DEF Start, PkgInv, SaveInv
<1> QED BY <1>1, <1>2, <1>3

LEMMA StartAssemblingKeeps == PkgInv /\ StartAssembling => PkgInv'
<1> SUFFICES ASSUME PkgInv, StartAssembling PROVE PkgInv'
  OBVIOUS
<1>1. Start("ready") /\ program' \in Programs /\ UNCHANGED loadVars
  BY DEF StartAssembling
<1>2. FileInv' /\ ReportedIsWhole' /\ SaveInv' /\ saves' \in Seq(Savings)
  BY <1>1, StartKeeps
<1>3. ProcInv'
  BY <1>1, <1>2, ProgramFields DEF Start, PkgInv, ProcInv, historyVars, loadVars
<1>4. LoadInv'
  BY <1>1 DEF Start, PkgInv, LoadInv, loadVars
<1> QED BY <1>2, <1>3, <1>4 DEF PkgInv

LEMMA StartLoadingKeeps == ASSUME NEW p \in Path, PkgInv, StartLoading(p) PROVE PkgInv'
<1>1. /\ Start("loading") /\ path' = p /\ loaders' = LoadersFor(p) /\ pos' = 1 /\ acc' = NoProgram
      /\ UNCHANGED program
  BY DEF StartLoading
<1>2. FileInv' /\ ReportedIsWhole' /\ SaveInv' /\ saves' \in Seq(Savings)
  BY <1>1, StartKeeps
<1>3. ProcInv'
  BY <1>1, <1>2, PackageAssumption DEF Start, PkgInv, ProcInv, historyVars
<1>4. Formats(path)' = Formats(p)
  BY <1>1 DEF Formats, LoadersFor
<1>5. LoadInv'
  BY <1>1, <1>4, LoadersTyped DEF LoadInv
<1> QED BY <1>2, <1>3, <1>5 DEF PkgInv
-----------------------------------------------------------------------------
(* Loading.                                                                *)
LEMMA LoadingKeeps ==
  ASSUME PkgInv, Loading, stage' # "saving"
  PROVE  FileInv' /\ ReportedIsWhole' /\ SaveInv'
<1>1. FileInv' /\ ReportedIsWhole'
  BY FilesKept DEF Loading, PkgInv
<1>2. SaveInv'
  BY DEF Loading, PkgInv, SaveInv
<1> QED BY <1>1, <1>2

LEMMA ReadHeaderKeeps == PkgInv /\ ReadHeader => PkgInv'
<1> SUFFICES ASSUME PkgInv, ReadHeader PROVE PkgInv'
  OBVIOUS
<1>1. /\ Loading /\ stage = "loading" /\ pos = 1 /\ GoodHeader /\ pos' = 2
      /\ UNCHANGED <<stage, program, path, loaders, acc, saves, verdict, files, wrote, lost, image, origin>>
  BY DEF ReadHeader, Loading, historyVars
<1>2. FileInv' /\ ReportedIsWhole' /\ SaveInv'
  BY <1>1, LoadingKeeps
<1>3. ProcInv'
  BY <1>1 DEF PkgInv, ProcInv
<1>4. path \in Path /\ FileInv /\ LoadInv /\ acc = NoProgram
  BY <1>1 DEF PkgInv, ProcInv, LoadInv
<1>5. Saved(path)
  BY <1>1, <1>4, NoHeader DEF FileInv
<1> DEFINE P == origin[path]
           h == image[path][1]
           f == h.magic
<1>6. /\ Front(f) \in {1, 2} /\ EndOfCode(h) = Front(f) + Len(P.code)
      /\ EndOfSegments(h) = EndOfCode(h) + Len(P.data_segments)
      /\ Len(P.code) \in Nat /\ Len(P.data_segments) \in Nat
      /\ Len(files[path]) \in Nat /\ (Len(files[path]) >= 1 => files[path][1] = h)
  BY <1>4, <1>5, SavedTyped
<1>7. Len(files[path]) >= 1 /\ files[path][1].magic = loaders[1]
  BY <1>1, <1>6 DEF GoodHeader, Readable, File
<1>8. f = loaders[1]
  BY <1>6, <1>7
<1>9. /\ NoProgram.code = <<>> /\ NoProgram.data_segments = <<>> /\ NoProgram.symbols = <<>>
      /\ NoProgram = [code |-> NoProgram.code, data_segments |-> NoProgram.data_segments,
                      symbols |-> NoProgram.symbols]
  BY DEF NoProgram
<1> HIDE DEF P, h, f
<1>10. /\ Clip(1 - Front(f), Len(P.code)) = 0
       /\ Clip(1 - EndOfCode(h), Len(P.data_segments)) = 0
       /\ EndOfSegments(h) + 1 .. 1 = {}
  BY <1>6 DEF Clip
<1>11. /\ <<>> \in Seq(Words) /\ <<>> \in Seq(Patches) /\ Len(<<>>) = 0
       /\ <<>> \in [DOMAIN <<>> -> Nat] /\ DOMAIN <<>> = {} /\ 1 .. 0 = {}
  <2>1. <<>> \in Seq(Nat) /\ Len(<<>>) = 0
    BY EmptySeq
  <2>2. <<>> \in [1 .. 0 -> Nat] /\ DOMAIN <<>> = 1 .. 0
    BY <2>1, LenProperties
  <2> QED BY <2>1, <2>2, EmptySeq
<1>12. {image[path][k].symbol : k \in EndOfSegments(h) + 1 .. 1} = {}
  BY <1>10
<1>13. Reading'
  <2>1. Saved(path)'
    BY <1>1, <1>5 DEF Saved
  <2>2. (pos - 1)' = 1
    BY <1>1
  <2>3. /\ path' = path /\ origin' = origin /\ image' = image /\ files' = files /\ acc' = NoProgram
        /\ loaders' = loaders
    BY <1>1, <1>4
  <2> QED
    BY <2>1, <2>2, <2>3, <1>7, <1>8, <1>9, <1>10, <1>11, <1>12 DEF Reading, P, h, f, Agree
<1>14. Whole(path)' = Whole(path) /\ Formats(path)' = Formats(path)
  BY <1>1 DEF Whole, Formats, LoadersFor
<1>15. LoadInv'
  BY <1>1, <1>4, <1>13, <1>14 DEF LoadInv
<1> QED BY <1>2, <1>3, <1>15 DEF PkgInv

(* A part of the program, of which the units after F are the elements.     *)
Added(c, w, F, k, x) == IF k \in F + 1 .. F + Len(w) THEN Append(c, x) ELSE c
LEMMA AppendRead ==
  ASSUME NEW S, NEW c \in Seq(S), NEW w \in Seq(S), NEW F \in Nat, NEW k \in Nat \ {0}, NEW x,
         Agree(c, w, Clip(k - 1 - F, Len(w))), k \in F + 1 .. F + Len(w) => x = w[k - F]
  PROVE  /\ Added(c, w, F, k, x) \in Seq(S)
         /\ Agree(Added(c, w, F, k, x), w, Clip(k - F, Len(w)))
<1> DEFINE d == Added(c, w, F, k, x)
<1> SUFFICES d \in Seq(S) /\ Len(d) = Clip(k - F, Len(w)) /\ \A i \in 1 .. Len(d) : d[i] = w[i]
  BY DEF Agree
<1>0. Len(c) = Clip(k - 1 - F, Len(w)) /\ \A i \in 1 .. Len(c) : c[i] = w[i]
  BY DEF Agree
<1>1. Len(w) \in Nat /\ Len(c) \in Nat
  BY LenProperties
<1>2. CASE k \in F + 1 .. F + Len(w)
  <2>1. k - F \in 1 .. Len(w) /\ Len(c) + 1 = k - F
    BY <1>0, <1>1, <1>2 DEF Clip
  <2>2. x \in S /\ x = w[k - F]
    BY <1>2, <2>1, ElementOfSeq
  <2>3. d = Append(c, x)
    BY <1>2 DEF Added
  <2>4. /\ d \in Seq(S) /\ Len(d) = Len(c) + 1 /\ d[Len(c) + 1] = x
        /\ \A i \in 1 .. Len(c) : d[i] = c[i]
    BY <2>2, <2>3, AppendProperties
  <2>5. Clip(k - F, Len(w)) = Len(c) + 1
    BY <1>1, <2>1 DEF Clip
  <2>6. ASSUME NEW i \in 1 .. Len(d) PROVE d[i] = w[i]
    <3>1. CASE i = Len(c) + 1
      BY <3>1, <2>1, <2>2, <2>4
    <3>2. CASE i # Len(c) + 1
      <4>1. i \in 1 .. Len(c)
        BY <3>2, <2>4, <1>1
      <4> QED BY <4>1, <2>4, <1>0
    <3> QED BY <3>1, <3>2
  <2> QED BY <2>4, <2>5, <2>6
<1>3. CASE k \notin F + 1 .. F + Len(w)
  <2>1. d = c
    BY <1>3 DEF Added
  <2>2. Clip(k - F, Len(w)) = Clip(k - 1 - F, Len(w))
    BY <1>1, <1>3 DEF Clip
  <2> QED BY <2>1, <2>2, <1>0
<1> QED BY <1>2, <1>3

LEMMA ReadUnitReads ==
  ASSUME PkgInv, ReadUnit
  PROVE  Reading'
<1>1. /\ stage = "loading" /\ pos > 1 /\ pos <= EndOfSymbols(File[1]) /\ Readable
      /\ acc' = Expected /\ pos' = pos + 1
      /\ UNCHANGED <<stage, path, loaders, files, image, origin>>
  BY DEF ReadUnit, Loading, historyVars
<1>2. path \in Path /\ FileInv /\ Reading /\ pos \in Nat \ {0}
  BY <1>1 DEF PkgInv, ProcInv, LoadInv
<1>3. Saved(path)
  BY <1>2 DEF Reading
<1> DEFINE P == origin[path]
           s == image[path]
           h == s[1]
           f == h.magic
           c == Len(P.code)
           d == Len(P.data_segments)
           m == Cardinality(DOMAIN P.symbols)
<1>4. /\ P \in Programs /\ f \in Format /\ Front(f) \in {1, 2} /\ EndOfCode(h) = Front(f) + c
      /\ EndOfSegments(h) = EndOfCode(h) + d
      /\ EndOfSymbols(h) = EndOfSegments(h) + m
      /\ c \in Nat /\ d \in Nat /\ m \in Nat
      /\ Len(files[path]) \in Nat /\ (Len(files[path]) >= 1 => files[path][1] = h)
  BY <1>2, <1>3, SavedTyped
<1>5. File[1] = h /\ File = files[path] /\ pos \in 1 .. Len(files[path])
  BY <1>1, <1>2, <1>4 DEF Readable, File
<1>6. File[pos] = s[pos]
  BY <1>3, <1>5 DEF Saved, Begins
<1>7. /\ s \in Seq(Unit)
      /\ \A k \in Front(f) + 1 .. EndOfCode(h) : s[k].word = P.code[k - Front(f)]
      /\ \A k \in EndOfCode(h) + 1 .. EndOfSegments(h) :
           s[k].segment = P.data_segments[k - EndOfCode(h)]
      /\ \A k \in EndOfSegments(h) + 1 .. EndOfSymbols(h) :
           s[k].symbol \in DOMAIN P.symbols /\ s[k].value = P.symbols[s[k].symbol]
  BY <1>3 DEF Saved, SerialOf
<1>8. /\ P.code \in Seq(Words) /\ P.data_segments \in Seq(Patches)
      /\ P.symbols \in [DOMAIN P.symbols -> Nat]
  BY <1>4, ProgramFields
<1>9. /\ pos - 1 <= Len(files[path]) /\ f = loaders[1]
      /\ acc.code \in Seq(Words)
      /\ Agree(acc.code, P.code, Clip(pos - 1 - Front(f), c))
      /\ acc.data_segments \in Seq(Patches)
      /\ Agree(acc.data_segments, P.data_segments, Clip(pos - 1 - EndOfCode(h), d))
      /\ acc.symbols \in [DOMAIN acc.symbols -> Nat]
      /\ DOMAIN acc.symbols = {s[k].symbol : k \in EndOfSegments(h) + 1 .. pos - 1}
      /\ \A n \in DOMAIN acc.symbols : acc.symbols[n] = P.symbols[n]
  BY <1>2 DEF Reading
<1> DEFINE u == s[pos]
           F == Front(f)
           C == EndOfCode(h)
           D == EndOfSegments(h)
<1>10. /\ acc' = [code |-> acc'.code, data_segments |-> acc'.data_segments, symbols |-> acc'.symbols]
       /\ acc'.code = IF pos \in F + 1 .. C THEN Append(acc.code, u.word) ELSE acc.code
       /\ acc'.data_segments = IF pos \in C + 1 .. D THEN Append(acc.data_segments, u.segment)
                               ELSE acc.data_segments
       /\ acc'.symbols = IF pos <= D THEN acc.symbols
                         ELSE [n \in DOMAIN acc.symbols \cup {u.symbol} |->
                                IF n \in DOMAIN acc.symbols THEN acc.symbols[n] ELSE u.value]
  BY <1>1, <1>5, <1>6 DEF Expected
<1>11. acc'.code \in Seq(Words) /\ Agree(acc'.code, P.code, Clip(pos - F, c))
  <2> HIDE DEF P, s, h, f, u
  <2>1. F \in Nat /\ pos \in Nat \ {0} /\ C = F + c
    BY <1>2, <1>4
  <2>2. pos \in F + 1 .. F + c => u.word = P.code[pos - F]
    BY <1>7, <2>1 DEF u
  <2>3. acc'.code = Added(acc.code, P.code, F, pos, u.word)
    BY <1>10, <2>1 DEF Added
  <2>4. acc.code \in Seq(Words) /\ Agree(acc.code, P.code, Clip(pos - 1 - F, c))
    BY <1>9
  <2> HIDE DEF C, F
  <2> QED BY <1>8, <2>1, <2>2, <2>3, <2>4, AppendRead
<1>12. acc'.data_segments \in Seq(Patches) /\ Agree(acc'.data_segments, P.data_segments, Clip(pos - C, d))
  <2> HIDE DEF P, s, h, f, u
  <2>1. C \in Nat /\ pos \in Nat \ {0} /\ D = C + d
    BY <1>2, <1>4
  <2>2. pos \in C + 1 .. C + d => u.segment = P.data_segments[pos - C]
    BY <1>7, <2>1 DEF u
  <2>3. acc'.data_segments = Added(acc.data_segments, P.data_segments, C, pos, u.segment)
    BY <1>10, <2>1 DEF Added
  <2>4. acc.data_segments \in Seq(Patches) /\ Agree(acc.data_segments, P.data_segments, Clip(pos - 1 - C, d))
    BY <1>9
  <2> HIDE DEF C, D
  <2> QED BY <1>8, <2>1, <2>2, <2>3, <2>4, AppendRead
<1>13. /\ acc'.symbols \in [DOMAIN acc'.symbols -> Nat]
       /\ DOMAIN acc'.symbols = {s[k].symbol : k \in D + 1 .. pos}
       /\ \A n \in DOMAIN acc'.symbols : acc'.symbols[n] = P.symbols[n]
  <2> HIDE DEF P, s, h, f
  <2>1. D \in Nat /\ pos \in Nat \ {0}
    BY <1>2, <1>4
  <2>2. CASE pos <= D
    <3>1. acc'.symbols = acc.symbols
      BY <1>10, <2>2
    <3>2. D + 1 .. pos = {} /\ D + 1 .. pos - 1 = {}
      BY <2>1, <2>2
    <3> QED BY <1>9, <3>1, <3>2
  <2>3. CASE pos > D
    <3>1. pos \in D + 1 .. EndOfSymbols(h)
      BY <1>1, <1>4, <1>5, <2>1, <2>3
    <3>2. u.symbol \in DOMAIN P.symbols /\ u.value = P.symbols[u.symbol] /\ u.value \in Nat
      BY <1>7, <1>8, <3>1
    <3>3. acc'.symbols = [n \in DOMAIN acc.symbols \cup {u.symbol} |->
                            IF n \in DOMAIN acc.symbols THEN acc.symbols[n] ELSE u.value]
      BY <1>10, <2>1, <2>3
    <3>4. D + 1 .. pos = (D + 1 .. pos - 1) \cup {pos}
      BY <2>1, <2>3
    <3>5. {s[k].symbol : k \in D + 1 .. pos} = {s[k].symbol : k \in D + 1 .. pos - 1} \cup {u.symbol}
      BY <3>4
    <3> HIDE DEF u
    <3>6. DOMAIN acc'.symbols = DOMAIN acc.symbols \cup {u.symbol}
      BY <3>3
    <3>7. \A n \in DOMAIN acc'.symbols : acc'.symbols[n] \in Nat /\ acc'.symbols[n] = P.symbols[n]
      BY <1>9, <3>2, <3>3
    <3>8. acc'.symbols \in [DOMAIN acc'.symbols -> Nat]
      BY <3>3, <3>6, <3>7
    <3> QED BY <1>9, <3>5, <3>6, <3>7, <3>8
  <2> QED BY <2>1, <2>2, <2>3
<1>14. Saved(path)'
  BY <1>1, <1>3 DEF Saved
<1>15. (pos - 1)' = pos /\ pos <= Len(files[path])
  BY <1>1, <1>2, <1>5
<1>16. path' = path /\ origin' = origin /\ image' = image /\ files' = files /\ loaders' = loaders
  BY <1>1
<1>17. f = loaders[1] /\ acc' = [code |-> acc'.code, data_segments |-> acc'.data_segments,
                                 symbols |-> acc'.symbols]
  BY <1>9, <1>10
<1>18. /\ origin'[path'] = P /\ image'[path'] = s /\ files'[path'] = files[path] /\ s[1] = h
       /\ h.magic = f /\ Front(f) = F /\ EndOfCode(h) = C /\ EndOfSegments(h) = D
       /\ Len(P.code) = c /\ Len(P.data_segments) = d
  BY <1>16
<1>19. pos' - 1 = pos
  BY <1>15
<1> HIDE DEF P, s, h, f, c, d, u, F, C, D
<1> QED
  BY <1>11, <1>12, <1>13, <1>14, <1>15, <1>16, <1>17, <1>18, <1>19 DEF Reading

LEMMA ReadUnitKeeps == PkgInv /\ ReadUnit => PkgInv'
<1> SUFFICES ASSUME PkgInv, ReadUnit PROVE PkgInv'
  OBVIOUS
<1>1. /\ Loading /\ stage = "loading" /\ pos > 1 /\ pos' = pos + 1
      /\ UNCHANGED <<stage, program, path, loaders, saves, verdict, files, wrote, lost, image, origin>>
  BY DEF ReadUnit, Loading, historyVars
<1>2. FileInv' /\ ReportedIsWhole' /\ SaveInv'
  BY <1>1, LoadingKeeps
<1>3. ProcInv'
  BY <1>1 DEF PkgInv, ProcInv
<1>4. Reading'
  BY ReadUnitReads
<1>5. Whole(path)' = Whole(path) /\ Formats(path)' = Formats(path)
  BY <1>1 DEF Whole, Formats, LoadersFor
<1>6. LoadInv /\ pos' \in Nat \ {0} /\ pos' # 1
  BY <1>1 DEF PkgInv, LoadInv
<1>7. LoadInv'
  BY <1>1, <1>4, <1>5, <1>6 DEF LoadInv
<1> QED BY <1>2, <1>3, <1>7 DEF PkgInv

(* The loader that is done has the program the package was saved from.     *)
LEMMA LoadedIsSaved ==
  ASSUME PkgInv, LoadDone
  PROVE  /\ path \in Path /\ Whole(path) /\ acc = origin[path] /\ acc \in Programs
         /\ image[path][1].magic \in Formats(path)
<1>1. stage = "loading" /\ pos > 1 /\ LoadedAll
  BY DEF LoadDone, Loading
<1>2. path \in Path /\ FileInv /\ LoadInv /\ Reading /\ pos \in Nat \ {0}
  BY <1>1 DEF PkgInv, ProcInv, LoadInv
<1>3. Saved(path)
  BY <1>2 DEF Reading
<1> DEFINE P == origin[path]
           s == image[path]
           h == s[1]
           f == h.magic
           c == Len(P.code)
           d == Len(P.data_segments)
           m == Cardinality(DOMAIN P.symbols)
<1>4. /\ P \in Programs /\ P # None /\ f \in Format /\ Front(f) \in {1, 2} /\ EndOfCode(h) = Front(f) + c
      /\ EndOfSegments(h) = EndOfCode(h) + d
      /\ EndOfSymbols(h) = EndOfSegments(h) + m
      /\ c \in Nat /\ d \in Nat /\ m \in Nat
      /\ Len(s) = EndOfSymbols(h) /\ Len(files[path]) <= Len(s)
      /\ Len(files[path]) \in Nat /\ (Len(files[path]) >= 1 => files[path][1] = h)
  BY <1>2, <1>3, SavedTyped
<1>5. pos - 1 <= Len(files[path])
  BY <1>2 DEF Reading
<1>6. File[1] = h
  BY <1>1, <1>2, <1>4, <1>5 DEF File
<1>7. pos - 1 = EndOfSymbols(h) /\ Len(files[path]) = Len(s)
  <2>1. pos > EndOfSymbols(h)
    BY <1>1, <1>6 DEF LoadedAll
  <2> HIDE DEF P, s, h, f, c, d, m
  <2>2. EndOfSymbols(h) \in Nat
    BY <1>4
  <2> QED BY <1>2, <1>4, <1>5, <2>1, <2>2
<1>8. s \in Seq(Unit) /\ files[path] \in Seq(Unit) /\ Begins(files[path], s)
  BY <1>3 DEF Saved, SerialOf
<1>9. files[path] = s
  BY <1>7, <1>8, SeqEqual DEF Begins
<1>10. /\ P = [code |-> P.code, data_segments |-> P.data_segments, symbols |-> P.symbols]
       /\ P.code \in Seq(Words) /\ P.data_segments \in Seq(Patches)
       /\ P.symbols \in [DOMAIN P.symbols -> Nat]
  BY <1>4, ProgramFields
<1>11. /\ acc = [code |-> acc.code, data_segments |-> acc.data_segments, symbols |-> acc.symbols]
       /\ acc.code \in Seq(Words) /\ acc.data_segments \in Seq(Patches)
       /\ Agree(acc.code, P.code, Clip(pos - 1 - Front(f), c))
       /\ Agree(acc.data_segments, P.data_segments, Clip(pos - 1 - EndOfCode(h), d))
       /\ acc.symbols \in [DOMAIN acc.symbols -> Nat]
       /\ DOMAIN acc.symbols = {s[k].symbol : k \in EndOfSegments(h) + 1 .. pos - 1}
       /\ \A n \in DOMAIN acc.symbols : acc.symbols[n] = P.symbols[n]
       /\ f = loaders[1]
  BY <1>2 DEF Reading
<1>12. /\ \A k \in EndOfSegments(h) + 1 .. EndOfSymbols(h) : s[k].symbol \in DOMAIN P.symbols
       /\ \A n \in DOMAIN P.symbols : \E k \in EndOfSegments(h) + 1 .. EndOfSymbols(h) : s[k].symbol = n
  BY <1>3 DEF Saved, SerialOf
<1>13. f \in Formats(path)
  <2>1. loaders \in Seq(Format) /\ loaders # <<>> /\ \A k \in 1 .. Len(loaders) : loaders[k] \in Formats(path)
    BY <1>1, <1>2 DEF LoadInv
  <2>2. 1 \in 1 .. Len(loaders)
    BY <2>1, EmptySeq
  <2> QED BY <2>1, <2>2, <1>11
<1>14. Whole(path)
  BY <1>4, <1>9 DEF Whole
<1> HIDE DEF P, s, h, f, c, d, m
<1>15. Clip(pos - 1 - Front(f), c) = c /\ Clip(pos - 1 - EndOfCode(h), d) = d
  <2> DEFINE F == Front(f)
             C == EndOfCode(h)
             D == EndOfSegments(h)
             E == EndOfSymbols(h)
  <2>0. /\ F \in Nat /\ C = F + c /\ D = C + d /\ E = D + m
        /\ c \in Nat /\ d \in Nat /\ m \in Nat
    BY <1>4
  <2>a. pos - 1 = E
    BY <1>7
  <2> HIDE DEF F, C, D, E
  <2>1. pos - 1 - F = c + d + m /\ pos - 1 - C = d + m
    BY <2>0, <2>a
  <2> USE DEF F, C
  <2> QED BY <2>1, <1>4 DEF Clip
<1>16. acc.code = P.code
  <2>1. Len(acc.code) = Len(P.code) /\ \A i \in 1 .. Len(acc.code) : acc.code[i] = P.code[i]
    BY <1>11, <1>15 DEF Agree, c
  <2> QED BY <2>1, <1>10, <1>11, SeqEqual
<1>17. acc.data_segments = P.data_segments
  <2>1. /\ Len(acc.data_segments) = Len(P.data_segments)
        /\ \A i \in 1 .. Len(acc.data_segments) : acc.data_segments[i] = P.data_segments[i]
    BY <1>11, <1>15 DEF Agree, d
  <2> QED BY <2>1, <1>10, <1>11, SeqEqual
<1>18. acc.symbols = P.symbols
  <2>1. DOMAIN acc.symbols = DOMAIN P.symbols
    <3>1. DOMAIN acc.symbols = {s[k].symbol : k \in EndOfSegments(h) + 1 .. EndOfSymbols(h)}
      BY <1>7, <1>11
    <3> QED BY <3>1, <1>12
  <2>2. \A n \in DOMAIN P.symbols : acc.symbols[n] = P.symbols[n]
    BY <2>1, <1>11
  <2>3. acc.symbols \in [DOMAIN P.symbols -> Nat] /\ P.symbols \in [DOMAIN P.symbols -> Nat]
    BY <2>1, <1>10, <1>11
  <2> DEFINE D == DOMAIN P.symbols
             a == acc.symbols
             b == P.symbols
  <2>4. a \in [D -> Nat] /\ b \in [D -> Nat] /\ \A n \in D : a[n] = b[n]
    BY <2>2, <2>3
  <2>5. a = b
    <3> HIDE DEF D, a, b
    <3> QED BY <2>4
  <2> QED BY <2>5
<1>19. acc = P
  BY <1>10, <1>11, <1>16, <1>17, <1>18
<1> QED BY <1>2, <1>4, <1>13, <1>14, <1>19 DEF P, f, h, s

LEMMA LoadDoneKeeps == PkgInv /\ LoadDone => PkgInv'
<1> SUFFICES ASSUME PkgInv, LoadDone PROVE PkgInv'
  OBVIOUS
<1>1. /\ Loading /\ stage' = "ready" /\ program' = acc /\ verdict' = "loaded" /\ NoLoad /\ saves' = saves
      /\ UNCHANGED <<wrote, lost>>
  BY DEF LoadDone, Loading, historyVars
<1>2. FileInv' /\ ReportedIsWhole' /\ SaveInv'
  BY <1>1, LoadingKeeps
<1>3. acc \in Programs /\ acc # None
  BY LoadedIsSaved, ProgramFields
<1>4. ProcInv'
  BY <1>1, <1>3 DEF PkgInv, ProcInv, NoLoad
<1>5. LoadInv'
  BY <1>1 DEF LoadInv, NoLoad
<1> QED BY <1>2, <1>4, <1>5 DEF PkgInv

LEMMA NextLoaderKeeps == PkgInv /\ NextLoader => PkgInv'
<1> SUFFICES ASSUME PkgInv, NextLoader PROVE PkgInv'
  OBVIOUS
<1>1. /\ Loading /\ stage = "loading" /\ LoaderThrows /\ Len(loaders) > 1
      /\ loaders' = Tail(loaders) /\ pos' = 1 /\ acc' = NoProgram
      /\ UNCHANGED <<stage, program, path, saves, verdict, files, wrote, lost, image, origin>>
  BY DEF NextLoader, Loading, historyVars
<1>2. FileInv' /\ ReportedIsWhole' /\ SaveInv'
  BY <1>1, LoadingKeeps
<1>3. ProcInv'
  BY <1>1 DEF PkgInv, ProcInv
<1>4. /\ loaders \in Seq(Format) /\ loaders # <<>>
      /\ \A k \in 1 .. Len(loaders) : loaders[k] \in Formats(path)
      /\ Whole(path) /\ image[path][1].magic \in Formats(path) =>
           \E k \in 1 .. Len(loaders) : loaders[k] = image[path][1].magic
  BY <1>1 DEF PkgInv, LoadInv
<1>5. /\ Tail(loaders) \in Seq(Format) /\ Len(Tail(loaders)) = Len(loaders) - 1
      /\ \A k \in 1 .. Len(Tail(loaders)) : Tail(loaders)[k] = loaders[k + 1]
      /\ Len(loaders) \in Nat
  BY <1>4, HeadTailProperties, LenProperties
<1>6. Whole(path)' = Whole(path) /\ Formats(path)' = Formats(path)
  BY <1>1 DEF Whole, Formats, LoadersFor
<1>7. ASSUME Whole(path), image[path][1].magic \in Formats(path)
      PROVE  \E k \in 1 .. Len(Tail(loaders)) : Tail(loaders)[k] = image[path][1].magic
  <2>1. PICK k \in 1 .. Len(loaders) : loaders[k] = image[path][1].magic
    BY <1>4, <1>7
  <2>2. k # 1
    BY <1>1, <1>7, <2>1, WholeIsRead
  <2>3. k - 1 \in 1 .. Len(Tail(loaders)) /\ k - 1 + 1 = k
    BY <1>5, <2>2
  <2>4. Tail(loaders)[k - 1] = loaders[k]
    BY <1>5, <2>3
  <2> QED BY <2>1, <2>3, <2>4
<1>8. \A k \in 1 .. Len(Tail(loaders)) : Tail(loaders)[k] \in Formats(path)
  <2> TAKE k \in 1 .. Len(Tail(loaders))
  <2>1. k + 1 \in 1 .. Len(loaders)
    BY <1>5
  <2> QED BY <2>1, <1>4, <1>5
<1>9. Tail(loaders) # <<>>
  <2>1. Len(Tail(loaders)) >= 1
    BY <1>1, <1>5
  <2> DEFINE t == Tail(loaders)
  <2>2. t \in Seq(Format) /\ Len(t) # 0
    BY <1>5, <2>1
  <2> HIDE DEF t
  <2>3. t # <<>>
    BY <2>2, EmptySeq
  <2> QED BY <2>3 DEF t
<1>10. LoadInv'
  BY <1>1, <1>5, <1>6, <1>7, <1>8, <1>9 DEF LoadInv
<1> QED BY <1>2, <1>3, <1>10 DEF PkgInv

LEMMA RefusedKeeps == PkgInv /\ Refused => PkgInv'
<1> SUFFICES ASSUME PkgInv, Refused PROVE PkgInv'
  OBVIOUS
<1>1. /\ Loading /\ stage = "loading" /\ stage' = "idle" /\ verdict' = "refused" /\ saves' = <<>>
      /\ NoLoad /\ UNCHANGED <<program, wrote, lost>>
  BY DEF Refused, Loading, historyVars
<1>2. FileInv' /\ ReportedIsWhole' /\ SaveInv'
  BY <1>1, LoadingKeeps
<1>3. ProcInv'
  BY <1>1 DEF PkgInv, ProcInv, NoLoad
<1>4. LoadInv'
  BY <1>1 DEF LoadInv, NoLoad
<1> QED BY <1>2, <1>3, <1>4 DEF PkgInv
-----------------------------------------------------------------------------
(* Saving.                                                                 *)
LEMMA LoadKept ==
  ASSUME PkgInv, NoLoad \/ UNCHANGED loadVars, stage' # "loading"
  PROVE  LoadInv'
<1>1. CASE NoLoad
  BY <1>1 DEF LoadInv, NoLoad
<1>2. CASE UNCHANGED loadVars
  BY <1>2 DEF PkgInv, LoadInv, loadVars
<1> QED BY <1>1, <1>2

(* The other files, and what is reported of them, stay as they are.        *)
LEMMA OthersKept ==
  ASSUME FileInv, ReportedIsWhole, NEW q \in Path,
         NEW F \in Seq(Unit), NEW im \in Seq(Unit), NEW P \in Programs, SerialOf(im, P), Begins(F, im),
         files' = [files EXCEPT ![q] = F], image' = [image EXCEPT ![q] = im],
         origin' = [origin EXCEPT ![q] = P],
         wrote' \in SUBSET Path, wrote' \ {q} \subseteq wrote, lost \ {q} \subseteq lost',
         q \in wrote' \ lost' => F = im
  PROVE  FileInv' /\ ReportedIsWhole'
<1>1. /\ files \in [Path -> Seq(Unit) \cup {NoFile, Foreign}]
      /\ image \in [Path -> Seq(Unit)] /\ origin \in [Path -> Programs \cup {None}]
  BY DEF FileInv
<1>2. /\ files'[q] = F /\ image'[q] = im /\ origin'[q] = P
      /\ \A p \in Path \ {q} : files'[p] = files[p] /\ image'[p] = image[p] /\ origin'[p] = origin[p]
  BY <1>1
<1>3. /\ files' \in [Path -> Seq(Unit) \cup {NoFile, Foreign}]
      /\ image' \in [Path -> Seq(Unit)] /\ origin' \in [Path -> Programs \cup {None}]
  BY <1>1
<1>4. ASSUME NEW p \in Path PROVE Unsaved(p)' \/ Saved(p)'
  <2>1. CASE p = q
    BY <1>2, <2>1 DEF Saved
  <2>2. CASE p # q
    <3>1. files'[p] = files[p] /\ image'[p] = image[p] /\ origin'[p] = origin[p]
      BY <1>2, <2>2
    <3>2. Unsaved(p) \/ Saved(p)
      BY DEF FileInv
    <3> QED BY <3>1, <3>2 DEF Unsaved, Saved
  <2> QED BY <2>1, <2>2
<1>5. FileInv'
  BY <1>3, <1>4 DEF FileInv
<1>6. ASSUME NEW p \in wrote' \ lost' PROVE Whole(p)'
  <2>1. CASE p = q
    BY <1>2, <1>6, <2>1, ProgramFields DEF Whole
  <2>2. CASE p # q
    <3>1. p \in Path /\ p \in wrote \ lost
      BY <1>6, <2>2
    <3>2. files'[p] = files[p] /\ image'[p] = image[p] /\ origin'[p] = origin[p]
      BY <1>2, <2>2, <3>1
    <3>3. Whole(p)
      BY <3>1 DEF ReportedIsWhole
    <3> QED BY <3>2, <3>3 DEF Whole
  <2> QED BY <2>1, <2>2
<1> QED BY <1>5, <1>6 DEF ReportedIsWhole

(* What an unbuffered and a buffered write do to the parts.                *)
LEMMA PartMoved ==
  ASSUME NEW S, NEW f \in Seq(S), NEW b \in Seq(S), NEW r \in Seq(S), NEW im \in Seq(S),
         Parts(f, b, r, im), r # <<>>
  PROVE  /\ Append(b, r[1]) \in Seq(S) /\ Tail(r) \in Seq(S)
         /\ Parts(f, Append(b, r[1]), Tail(r), im)
<1>1. /\ 1 \in 1 .. Len(r) /\ Tail(r) \in Seq(S) /\ Len(Tail(r)) = Len(r) - 1
      /\ \A i \in 1 .. Len(Tail(r)) : Tail(r)[i] = r[i + 1]
  BY EmptySeq, HeadTailProperties
<1>2. r[1] \in S /\ Len(f) \in Nat /\ Len(b) \in Nat /\ Len(r) \in Nat /\ Len(im) \in Nat
  BY <1>1, ElementOfSeq, LenProperties
<1> DEFINE c == Append(b, r[1])
           t == Tail(r)
<1>3. /\ c \in Seq(S) /\ Len(c) = Len(b) + 1 /\ c[Len(b) + 1] = r[1]
      /\ \A i \in 1 .. Len(b) : c[i] = b[i]
  BY <1>2, AppendProperties
<1>4. Len(t) = Len(r) - 1 /\ \A i \in 1 .. Len(t) : t[i] = r[i + 1]
  BY <1>1
<1> HIDE DEF c, t
<1>5. /\ Len(f) + Len(b) + Len(r) = Len(im)
      /\ \A i \in 1 .. Len(f) : f[i] = im[i]
      /\ \A i \in 1 .. Len(b) : b[i] = im[Len(f) + i]
      /\ \A i \in 1 .. Len(r) : r[i] = im[Len(f) + Len(b) + i]
  BY DEF Parts
<1>6. ASSUME NEW i \in 1 .. Len(c) PROVE c[i] = im[Len(f) + i]
  <2>1. CASE i \in 1 .. Len(b)
    BY <2>1, <1>3, <1>5
  <2>2. CASE i = Len(b) + 1
    <3>1. Len(f) + i = Len(f) + Len(b) + 1
      BY <2>2, <1>2
    <3> QED BY <2>2, <3>1, <1>1, <1>3, <1>5
  <2> QED BY <2>1, <2>2, <1>2, <1>3
<1>7. ASSUME NEW i \in 1 .. Len(t) PROVE t[i] = im[Len(f) + Len(c) + i]
  <2>1. i + 1 \in 1 .. Len(r) /\ Len(f) + Len(b) + (i + 1) = Len(f) + Len(c) + i
    BY <1>2, <1>3, <1>4
  <2> QED BY <2>1, <1>4, <1>5
<1>8. Len(f) + Len(c) + Len(t) = Len(im)
  BY <1>2, <1>3, <1>4, <1>5
<1>9. Parts(f, c, t, im)
  BY <1>5, <1>6, <1>7, <1>8 DEF Parts
<1> QED BY <1>1, <1>3, <1>9 DEF c, t

LEMMA PartReaches ==
  ASSUME NEW S, NEW f \in Seq(S), NEW b \in Seq(S), NEW r \in Seq(S), NEW im \in Seq(S),
         Parts(f, b, r, im), NEW n \in 0 .. Len(b)
  PROVE  LET F == f \o SubSeq(b, 1, n)
         IN  F \in Seq(S) /\ Begins(F, im) /\ (n = Len(b) => Parts(F, <<>>, r, im))
<1>1. Len(f) \in Nat /\ Len(b) \in Nat /\ Len(r) \in Nat /\ Len(im) \in Nat
  BY LenProperties
<1> DEFINE c == SubSeq(b, 1, n)
           F == f \o c
<1>2. c \in Seq(S) /\ Len(c) = n /\ \A i \in 1 .. n : c[i] = b[i]
  <2>1. /\ c \in Seq(S) /\ Len(c) = IF 1 <= n THEN n - 1 + 1 ELSE 0
        /\ \A i \in 1 .. n - 1 + 1 : c[i] = b[1 + i - 1]
    <3>1. 1 \in 1 .. Len(b) + 1 /\ n \in 1 - 1 .. Len(b)
      BY <1>1
    <3> QED BY <3>1, <1>1, SubSeqProperties
  <2>2. Len(c) = n /\ n - 1 + 1 = n /\ \A i \in 1 .. n : 1 + i - 1 = i
    <3> HIDE DEF c
    <3> QED BY <2>1, <1>1
  <2> QED BY <2>1, <2>2
<1>3. /\ F \in Seq(S) /\ Len(F) = Len(f) + n
      /\ \A i \in 1 .. Len(F) : F[i] = IF i <= Len(f) THEN f[i] ELSE c[i - Len(f)]
  BY <1>2, ConcatProperties
<1> HIDE DEF c, F
<1>4. /\ Len(f) + Len(b) + Len(r) = Len(im)
      /\ \A i \in 1 .. Len(f) : f[i] = im[i]
      /\ \A i \in 1 .. Len(b) : b[i] = im[Len(f) + i]
      /\ \A i \in 1 .. Len(r) : r[i] = im[Len(f) + Len(b) + i]
  BY DEF Parts
<1>5. ASSUME NEW i \in 1 .. Len(F) PROVE F[i] = im[i]
  <2>1. CASE i <= Len(f)
    BY <2>1, <1>1, <1>3, <1>4
  <2>2. CASE i > Len(f)
    <3>1. i - Len(f) \in 1 .. n /\ Len(f) + (i - Len(f)) = i
      BY <2>2, <1>1, <1>3
    <3>2. F[i] = b[i - Len(f)]
      BY <2>2, <3>1, <1>1, <1>2, <1>3
    <3>3. i - Len(f) \in 1 .. Len(b)
      BY <3>1, <1>1
    <3> QED BY <3>1, <3>2, <3>3, <1>4
  <2> QED BY <2>1, <2>2, <1>1, <1>3
<1>6. Begins(F, im)
  BY <1>1, <1>3, <1>4, <1>5 DEF Begins
<1>7. ASSUME n = Len(b) PROVE Parts(F, <<>>, r, im)
  <2> DEFINE e == <<>>
  <2>1. Len(e) = 0
    BY EmptySeq
  <2> HIDE DEF e
  <2>2. ASSUME NEW i \in 1 .. Len(r) PROVE r[i] = im[Len(F) + Len(e) + i]
    <3>1. Len(F) + Len(e) + i = Len(f) + Len(b) + i
      BY <1>1, <1>3, <1>7, <2>1
    <3> QED BY <3>1, <1>4
  <2>3. Len(F) + Len(e) + Len(r) = Len(im)
    BY <1>1, <1>3, <1>4, <1>7, <2>1
  <2>5. \A i \in 1 .. Len(e) : e[i] = im[Len(F) + i]
    BY <2>1
  <2>4. Parts(F, e, r, im)
    BY <2>5, <1>5, <2>1, <2>2, <2>3 DEF Parts
  <2> QED BY <2>4 DEF e
<1> QED BY <1>3, <1>6, <1>7 DEF F, c

LEMMA PartsDone ==
  ASSUME NEW S, NEW f \in Seq(S), NEW im \in Seq(S), Parts(f, <<>>, <<>>, im)
  PROVE  f = im
<1>1. Len(<<>>) = 0 /\ Len(f) \in Nat
  BY EmptySeq, LenProperties
<1>2. Len(f) = Len(im) /\ \A i \in 1 .. Len(f) : f[i] = im[i]
  BY <1>1 DEF Parts
<1> QED BY <1>2, SeqEqual

LEMMA SavingTyped ==
  ASSUME PkgInv, stage = "saving"
  PROVE  /\ FileInv /\ ReportedIsWhole /\ Target \in Path /\ Tail(saves) \in Seq(Savings)
         /\ saves[1].format \in Format
         /\ program \in Programs /\ program # None /\ origin[Target] = program
         /\ SerialOf(image[Target], program) /\ image[Target][1].magic = saves[1].format
         /\ files[Target] \in Seq(Unit) /\ image[Target] \in Seq(Unit)
         /\ rest \in Seq(Unit) /\ buffer \in Seq(Unit)
         /\ Parts(files[Target], buffer, rest, image[Target])
         /\ image = [image EXCEPT ![Target] = image[Target]]
         /\ origin = [origin EXCEPT ![Target] = program]
         /\ wrote \in SUBSET Path
<1>1. FileInv /\ ReportedIsWhole /\ ProcInv /\ SaveInv
  BY DEF PkgInv
<1>2. Target \in Path /\ Tail(saves) \in Seq(Savings) /\ saves[1].format \in Format
  BY <1>1, TargetTyped DEF ProcInv
<1>3. /\ program \in Programs /\ program # None /\ origin[Target] = program
      /\ image[Target][1].magic = saves[1].format
      /\ rest \in Seq(Unit) /\ buffer \in Seq(Unit)
      /\ Parts(files[Target], buffer, rest, image[Target]) /\ wrote \in SUBSET Path
  BY <1>1 DEF ProcInv, SaveInv
<1>4. Saved(Target)
  BY <1>1, <1>2, <1>3 DEF FileInv, Unsaved
<1>5. /\ SerialOf(image[Target], program) /\ files[Target] \in Seq(Unit)
      /\ image[Target] \in Seq(Unit)
  BY <1>1, <1>2, <1>3, <1>4 DEF Saved, FileInv
<1>6. image \in [Path -> Seq(Unit)] /\ origin \in [Path -> Programs \cup {None}]
  BY <1>1 DEF FileInv
<1>7. image = [image EXCEPT ![Target] = image[Target]] /\ origin = [origin EXCEPT ![Target] = program]
  BY <1>2, <1>3, <1>6
<1> QED BY <1>1, <1>2, <1>3, <1>5, <1>7

LEMMA OpenForWritingKeeps == PkgInv /\ OpenForWriting => PkgInv'
<1> SUFFICES ASSUME PkgInv, OpenForWriting PROVE PkgInv'
  OBVIOUS
<1>1. /\ stage = "ready" /\ saves # <<>> /\ stage' = "saving"
      /\ files' = [files EXCEPT ![Target] = <<>>] /\ origin' = [origin EXCEPT ![Target] = program]
      /\ buffer' = <<>> /\ wrote' = wrote \ {Target} /\ lost' = lost \ {Target}
      /\ UNCHANGED <<program, path, loaders, pos, acc, saves, verdict>>
  BY DEF OpenForWriting, loadVars
<1>2. PICK order \in Orders(DOMAIN program.symbols) :
        /\ rest' = Serial(program, saves[1].format, order)
        /\ image' = [image EXCEPT ![Target] = rest']
  BY DEF OpenForWriting
<1>3. /\ FileInv /\ ReportedIsWhole /\ program \in Programs /\ program # None /\ wrote \in SUBSET Path
      /\ saves \in Seq(Savings) /\ lost \in SUBSET Path
  BY <1>1 DEF PkgInv, ProcInv
<1>4. Target \in Path /\ saves[1].format \in Format
  BY <1>1, <1>3, TargetTyped
<1>5. SerialOf(rest', program) /\ rest'[1].magic = saves[1].format
  BY <1>2, <1>3, <1>4, SerialIs
<1>6. rest' \in Seq(Unit)
  BY <1>5 DEF SerialOf
<1> DEFINE e == <<>>
<1>7. e \in Seq(Unit) /\ Len(e) = 0 /\ 1 .. Len(e) = {}
  BY EmptySeq
<1>8. Len(rest') \in Nat
  BY <1>6, LenProperties
<1>9. files' = [files EXCEPT ![Target] = e] /\ buffer' = e
  BY <1>1
<1> HIDE DEF e
<1>10. Begins(e, rest')
  BY <1>7, <1>8 DEF Begins
<1>11. FileInv' /\ ReportedIsWhole'
  <2>1. wrote' \in SUBSET Path /\ wrote' \ {Target} \subseteq wrote /\ lost \ {Target} \subseteq lost'
        /\ Target \notin wrote'
    BY <1>1, <1>3
  <2> QED
    BY <2>1, <1>1, <1>2, <1>3, <1>4, <1>5, <1>6, <1>7, <1>9, <1>10, OthersKept
<1>12. ProcInv'
  BY <1>1, <1>3 DEF PkgInv, ProcInv
<1>13. LoadInv'
  BY <1>1, LoadKept DEF loadVars
<1>14. Parts(e, e, rest', rest')
  <2>1. \A i \in 1 .. Len(rest') : Len(e) + Len(e) + i = i
    BY <1>7, <1>8
  <2> QED BY <2>1, <1>7, <1>8 DEF Parts
<1>15. /\ files'[Target] = e /\ image'[Target] = rest' /\ origin'[Target] = program
       /\ Target' = Target /\ saves' = saves /\ program' = program
  BY <1>1, <1>2, <1>3, <1>4, <1>9 DEF FileInv, Target
<1>16. SaveInv'
  BY <1>1, <1>5, <1>6, <1>7, <1>9, <1>14, <1>15 DEF SaveInv
<1> QED BY <1>11, <1>12, <1>13, <1>16 DEF PkgInv

(* After the end of a process only its files are left.                     *)
LEMMA Stopped ==
  ASSUME PkgInv, Stop, wrote' = wrote, lost' = lost, FileInv', ReportedIsWhole'
  PROVE  PkgInv'
<1>1. ProcInv'
  BY EmptySeq DEF PkgInv, ProcInv, Stop, NoLoad
<1>2. LoadInv'
  BY LoadKept DEF Stop
<1>3. SaveInv'
  BY EmptySeq DEF SaveInv, Stop
<1> QED BY <1>1, <1>2, <1>3 DEF PkgInv

LEMMA EndKeeps ==
  ASSUME PkgInv, Stop, UNCHANGED <<files, wrote, lost>>
  PROVE  PkgInv'
<1>1. FileInv' /\ ReportedIsWhole'
  BY FilesKept DEF PkgInv, Stop, historyVars
<1> QED BY <1>1, Stopped

LEMMA WriteBufferedKeeps == PkgInv /\ WriteBuffered => PkgInv'
<1> SUFFICES ASSUME PkgInv, WriteBuffered PROVE PkgInv'
  OBVIOUS
<1>1. /\ stage = "saving" /\ rest # <<>>
      /\ buffer' = Append(buffer, rest[1]) /\ rest' = Tail(rest)
      /\ UNCHANGED <<files, stage, program, path, loaders, pos, acc, saves, verdict, wrote, lost, image, origin>>
  BY DEF WriteBuffered, loadVars, historyVars
<1>2. FileInv' /\ ReportedIsWhole'
  BY <1>1, FilesKept DEF PkgInv, historyVars
<1>3. ProcInv'
  BY <1>1 DEF PkgInv, ProcInv
<1>4. LoadInv'
  BY <1>1, LoadKept DEF loadVars
<1>5. /\ buffer' \in Seq(Unit) /\ rest' \in Seq(Unit)
      /\ Parts(files[Target], buffer', rest', image[Target])
  BY <1>1, SavingTyped, PartMoved
<1>6. Target' = Target
  BY <1>1 DEF Target
<1>7. SaveInv'
  BY <1>1, <1>5, <1>6, SavingTyped DEF SaveInv
<1> QED BY <1>2, <1>3, <1>4, <1>7 DEF PkgInv

(* A file that grows.                                                      *)
LEMMA ReachesKeeps ==
  ASSUME PkgInv, stage = "saving",
         NEW units \in Seq(Unit), NEW r \in Seq(Unit), Parts(files[Target], units, r, image[Target]),
         NEW n \in 0 .. Len(units), Reaches(units, n),
         UNCHANGED <<image, origin>>, wrote' \in {wrote, wrote \cup {Target}},
         lost' \in {lost, lost \cup {Target}},
         Target \in wrote' \ lost' => n = Len(units) /\ r = <<>>
  PROVE  /\ FileInv' /\ ReportedIsWhole' /\ wrote' \in SUBSET Path
         /\ files'[Target] \in Seq(Unit)
         /\ n = Len(units) => Parts(files'[Target], <<>>, r, image[Target])
<1> DEFINE q == Target
           F == files[q] \o SubSeq(units, 1, n)
<1>1. /\ FileInv /\ ReportedIsWhole /\ q \in Path /\ program \in Programs
      /\ SerialOf(image[q], program) /\ files[q] \in Seq(Unit) /\ image[q] \in Seq(Unit)
      /\ image' = [image EXCEPT ![q] = image[q]]
      /\ origin' = [origin EXCEPT ![q] = program] /\ wrote \in SUBSET Path
  BY SavingTyped
<1>2. F \in Seq(Unit) /\ Begins(F, image[q]) /\ (n = Len(units) => Parts(F, <<>>, r, image[q]))
  BY <1>1, PartReaches
<1>3. files' = [files EXCEPT ![q] = F]
  BY DEF Reaches
<1>4. files'[q] = F
  BY <1>1, <1>3 DEF FileInv
<1>5. /\ wrote' \in SUBSET Path /\ wrote' \ {q} \subseteq wrote /\ lost \ {q} \subseteq lost'
  BY <1>1
<1> HIDE DEF F
<1>6. q \in wrote' \ lost' => F = image[q]
  BY <1>1, <1>2, PartsDone
<1>7. FileInv' /\ ReportedIsWhole'
  BY <1>1, <1>2, <1>3, <1>5, <1>6, OthersKept
<1> QED BY <1>2, <1>4, <1>5, <1>7

LEMMA WriteThroughKeeps == PkgInv /\ WriteThrough => PkgInv'
<1> SUFFICES ASSUME PkgInv, WriteThrough PROVE PkgInv'
  OBVIOUS
<1> DEFINE u == Append(buffer, rest[1])
<1>1. /\ stage = "saving" /\ rest # <<>> /\ Reaches(u, Len(buffer) + 1)
      /\ buffer' = <<>> /\ rest' = Tail(rest)
      /\ UNCHANGED <<stage, program, path, loaders, pos, acc, saves, verdict, wrote, lost, image, origin>>
  BY DEF WriteThrough, loadVars, historyVars
<1>2. /\ u \in Seq(Unit) /\ rest' \in Seq(Unit) /\ Parts(files[Target], u, rest', image[Target])
  BY <1>1, SavingTyped, PartMoved
<1>3. Len(u) = Len(buffer) + 1 /\ Len(buffer) \in Nat
  <2>1. buffer \in Seq(Unit) /\ rest \in Seq(Unit) /\ 1 \in 1 .. Len(rest)
    BY <1>1, SavingTyped, EmptySeq, HeadTailProperties
  <2>2. rest[1] \in Unit
    BY <2>1, ElementOfSeq
  <2> QED BY <2>1, <2>2, AppendProperties, LenProperties
<1> HIDE DEF u
<1>4. Len(buffer) + 1 \in 0 .. Len(u)
  BY <1>3
<1>5. Target \notin wrote' \ lost' \/ Whole(Target)
  BY <1>1 DEF PkgInv, ReportedIsWhole
<1>6. Target \in wrote' \ lost' => Len(buffer) + 1 = Len(u) /\ rest' = <<>>
  <2> SUFFICES ASSUME Target \in wrote' \ lost' PROVE FALSE
    OBVIOUS
  <2>1. files[Target] = image[Target]
    BY <1>5 DEF Whole
  <2>2. /\ Len(files[Target]) + Len(buffer) + Len(rest) = Len(image[Target])
        /\ Len(files[Target]) \in Nat /\ Len(rest) \in Nat
    BY <1>1, SavingTyped, LenProperties DEF Parts
  <2>3. Len(rest) >= 1
    BY <1>1, <2>2, SavingTyped, EmptySeq
  <2> QED BY <1>3, <2>1, <2>2, <2>3
<1>7. /\ FileInv' /\ ReportedIsWhole'
      /\ Parts(files'[Target], <<>>, rest', image[Target])
  BY <1>1, <1>2, <1>3, <1>4, <1>6, ReachesKeeps
<1>8. ProcInv'
  BY <1>1 DEF PkgInv, ProcInv
<1>9. LoadInv'
  BY <1>1, LoadKept DEF loadVars
<1>10. Target' = Target
  BY <1>1 DEF Target
<1>11. buffer' \in Seq(Unit)
  BY <1>1, EmptySeq
<1>12. SaveInv'
  BY <1>1, <1>2, <1>7, <1>10, <1>11, SavingTyped DEF SaveInv
<1> QED BY <1>7, <1>8, <1>9, <1>12 DEF PkgInv

(* A save under way is not whole while something is still to be written.   *)
LEMMA Unwritten ==
  ASSUME PkgInv, stage = "saving", rest # <<>>
  PROVE  /\ files[Target] # image[Target] /\ Target \notin wrote \ lost
         /\ Len(buffer) \in Nat /\ Len(files[Target]) \in Nat
         /\ Len(files[Target]) + Len(buffer) < Len(image[Target])
<1>1. /\ Len(files[Target]) + Len(buffer) + Len(rest) = Len(image[Target])
      /\ Len(files[Target]) \in Nat /\ Len(rest) \in Nat /\ Len(buffer) \in Nat
  BY SavingTyped, LenProperties DEF Parts
<1>2. Len(rest) >= 1
  BY <1>1, SavingTyped, EmptySeq
<1>3. files[Target] # image[Target] /\ Len(files[Target]) + Len(buffer) < Len(image[Target])
  BY <1>1, <1>2
<1>4. Target \notin wrote \ lost
  BY <1>3 DEF PkgInv, ReportedIsWhole, Whole
<1> QED BY <1>1, <1>3, <1>4

LEMMA WriteFailsKeeps == PkgInv /\ WriteFails => PkgInv'
<1> SUFFICES ASSUME PkgInv, WriteFails PROVE PkgInv'
  OBVIOUS
<1>1. stage = "saving" /\ rest # <<>> /\ Stop /\ wrote' = wrote /\ lost' = lost
  BY DEF WriteFails
<1>2. PICK n \in 0 .. Len(buffer) : Reaches(buffer, n)
  BY DEF WriteFails
<1>3. UNCHANGED <<image, origin>>
  BY <1>1 DEF Stop
<1>4. Target \notin wrote' \ lost'
  BY <1>1, Unwritten
<1>5. FileInv' /\ ReportedIsWhole'
  BY <1>1, <1>2, <1>3, <1>4, SavingTyped, ReachesKeeps
<1> QED BY <1>1, <1>5, Stopped

LEMMA CloseKeeps == PkgInv /\ Close => PkgInv'
<1> SUFFICES ASSUME PkgInv, Close PROVE PkgInv'
  OBVIOUS
<1>1. /\ stage = "saving" /\ rest = <<>> /\ wrote' = wrote \cup {Target}
      /\ buffer' = <<>> /\ saves' = Tail(saves) /\ stage' = "ready"
      /\ UNCHANGED <<program, path, loaders, pos, acc, rest, verdict, image, origin>>
  BY DEF Close, loadVars
<1>2. PICK n \in 0 .. Len(buffer) :
        Reaches(buffer, n) /\ lost' = IF n < Len(buffer) THEN lost \cup {Target} ELSE lost
  BY DEF Close
<1>3. Target \in wrote' \ lost' => n = Len(buffer) /\ rest = <<>>
  <2>1. Len(buffer) \in Nat
    BY <1>1, SavingTyped, LenProperties
  <2> QED BY <1>1, <1>2, <2>1
<1>4. FileInv' /\ ReportedIsWhole' /\ wrote' \in SUBSET Path
  BY <1>1, <1>2, <1>3, SavingTyped, ReachesKeeps
<1>5. ProcInv'
  BY <1>1, <1>2, <1>4, SavingTyped DEF PkgInv, ProcInv
<1>6. LoadInv'
  BY <1>1, LoadKept DEF loadVars
<1>7. SaveInv'
  BY <1>1, EmptySeq DEF SaveInv
<1> QED BY <1>4, <1>5, <1>6, <1>7 DEF PkgInv

LEMMA PkgStep == PkgInv /\ [PkgNext]_pkgVars => PkgInv'
<1> SUFFICES ASSUME PkgInv, [PkgNext]_pkgVars PROVE PkgInv'
  OBVIOUS
<1>1. CASE StartAssembling
  BY <1>1, StartAssemblingKeeps
<1>2. ASSUME NEW p \in Path, StartLoading(p) PROVE PkgInv'
  BY <1>2, StartLoadingKeeps
<1>3. CASE ReadHeader
  BY <1>3, ReadHeaderKeeps
<1>4. CASE ReadUnit
  BY <1>4, ReadUnitKeeps
<1>5. CASE LoadDone
  BY <1>5, LoadDoneKeeps
<1>6. CASE NextLoader
  BY <1>6, NextLoaderKeeps
<1>7. CASE Refused
  BY <1>7, RefusedKeeps
<1>8. CASE OpenForWriting
  BY <1>8, OpenForWritingKeeps
<1>9. CASE OpenFails \/ Return \/ Kill
  BY <1>9, EndKeeps DEF OpenFails, Return, Kill
<1>10. CASE WriteBuffered
  BY <1>10, WriteBufferedKeeps
<1>11. CASE WriteThrough
  BY <1>11, WriteThroughKeeps
<1>12. CASE WriteFails
  BY <1>12, WriteFailsKeeps
<1>13. CASE Close
  BY <1>13, CloseKeeps
<1>14. CASE UNCHANGED pkgVars
  <2>1. FileInv' /\ ReportedIsWhole'
    BY <1>14, FilesKept DEF PkgInv, pkgVars
  <2>2. ProcInv'
    BY <1>14 DEF PkgInv, ProcInv, pkgVars, loadVars, saveVars, historyVars
  <2>3. SaveInv'
    BY <1>14 DEF PkgInv, SaveInv, pkgVars, loadVars, saveVars, historyVars, Target
  <2>4. LoadInv'
    <3>1. /\ Saved(path)' = Saved(path) /\ Whole(path)' = Whole(path)
          /\ Formats(path)' = Formats(path)
      BY <1>14 DEF Saved, Whole, Formats, LoadersFor, pkgVars, loadVars, historyVars
    <3>2. Reading' = Reading
      BY <1>14, <3>1 DEF Reading, pkgVars, loadVars, historyVars
    <3> QED BY <1>14, <3>1, <3>2 DEF PkgInv, LoadInv, pkgVars, loadVars, historyVars
  <2> QED BY <2>1, <2>2, <2>3, <2>4 DEF PkgInv
<1> QED
  BY <1>1, <1>2, <1>3, <1>4, <1>5, <1>6, <1>7, <1>8, <1>9, <1>10, <1>11, <1>12, <1>13, <1>14
  DEF PkgNext, Steps

LEMMA PkgStart == PkgInit => PkgInv
<1> SUFFICES ASSUME PkgInit PROVE PkgInv
  OBVIOUS
<1>1. ProcInv
  BY PackageAssumption, EmptySeq DEF PkgInit, ProcInv
<1>2. FileInv
  BY EmptySeq DEF PkgInit, FileInv, Unsaved
<1>3. LoadInv
  BY EmptySeq DEF PkgInit, LoadInv
<1>4. SaveInv
  BY EmptySeq DEF PkgInit, SaveInv
<1>5. ReportedIsWhole
  BY DEF PkgInit, ReportedIsWhole
<1> QED BY <1>1, <1>2, <1>3, <1>4, <1>5 DEF PkgInv

LEMMA PkgHolds == PkgSpec => []PkgInv
BY PkgStart, PkgStep, PTL DEF PkgSpec
-----------------------------------------------------------------------------
(* The types of Package, and every file the beginning of its image.        *)
THEOREM PkgTypeCorrect == PkgSpec => []PkgTypeOK
<1>1. ASSUME PkgInv PROVE PkgTypeOK
  <2>1. ProcInv /\ FileInv /\ LoadInv /\ SaveInv
    BY <1>1 DEF PkgInv
  <2>2. ASSUME NEW p \in Path
        PROVE  files[p] \in {NoFile, Foreign} \/ IsPrefixOf(files[p], image[p])
    <3>1. CASE Unsaved(p)
      BY <3>1 DEF Unsaved
    <3>2. CASE Saved(p)
      <4>1. files[p] \in Seq(Unit) /\ image[p] \in Seq(Unit) /\ Begins(files[p], image[p])
        BY <3>2 DEF Saved, SerialOf
      <4> DEFINE s == files[p]
                 t == image[p]
                 c == SubSeq(t, 1, Len(s))
      <4>2. Len(s) \in Nat /\ Len(t) \in Nat /\ Len(s) <= Len(t) /\ \A i \in 1 .. Len(s) : s[i] = t[i]
        BY <4>1, LenProperties DEF Begins
      <4>3. 1 \in 1 .. Len(t) + 1 /\ Len(s) \in 1 - 1 .. Len(t)
        BY <4>2
      <4>4. /\ c \in Seq(Unit) /\ Len(c) = IF 1 <= Len(s) THEN Len(s) - 1 + 1 ELSE 0
            /\ \A i \in 1 .. Len(s) - 1 + 1 : c[i] = t[1 + i - 1]
        BY <4>1, <4>3, SubSeqProperties
      <4> HIDE DEF s, t, c
      <4>5. Len(c) = Len(s) /\ \A i \in 1 .. Len(s) : 1 + i - 1 = i /\ i \in 1 .. Len(s) - 1 + 1
        BY <4>2, <4>4
      <4>6. \A i \in 1 .. Len(s) : c[i] = s[i]
        BY <4>2, <4>4, <4>5
      <4>7. s = c
        BY <4>1, <4>4, <4>5, <4>6, SeqEqual DEF s
      <4> QED BY <4>2, <4>7 DEF s, t, c, IsPrefixOf
    <3> QED BY <2>1, <3>1, <3>2 DEF FileInv
  <2>3. stage = "loading" => loaders # <<>>
    BY <2>1 DEF LoadInv
  <2>4. rest \in Seq(Unit) /\ (stage # "saving" => rest = <<>> /\ buffer = <<>>)
    BY <2>1 DEF SaveInv
  <2> QED BY <2>1, <2>2, <2>3, <2>4 DEF PkgTypeOK, ProcInv, LoadInv, FileInv
<1> QED BY <1>1, PkgHolds, PTL

(* A package reported as written is whole, unless the last flush failed.   *)
THEOREM ReportedCorrect == PkgSpec => []ReportedIsWhole
<1>1. PkgInv => ReportedIsWhole
  BY DEF PkgInv
<1> QED BY <1>1, PkgHolds, PTL

-----------------------------------------------------------------------------
(* The store that the files implement.                                     *)
LEMMA StoredIs ==
  ASSUME FileInv, NEW p \in Path
  PROVE  /\ DOMAIN Stored = Path
         /\ Whole(p) => /\ Stored[p] = [format |-> image[p][1].magic, program |-> origin[p]]
                        /\ Stored[p] \in [format : Format, program : Programs]
         /\ ~Whole(p) => Stored[p] \in {NoFile, Damaged}
         /\ ~Whole(p) /\ files[p] # NoFile => Stored[p] = Damaged
         /\ Whole(p) => Saved(p) /\ files[p] # NoFile
<1>1. ASSUME Whole(p) PROVE Saved(p)
  BY <1>1 DEF FileInv, Unsaved, Whole
<1>2. ASSUME Whole(p) PROVE files[p] # NoFile /\ image[p][1].magic \in Format /\ origin[p] \in Programs
  BY <1>1, <1>2, SavedTyped
<1> QED BY <1>1, <1>2 DEF Stored

LEMMA StoredKept ==
  ASSUME UNCHANGED <<files, image, origin>>
  PROVE  Stored' = Stored
BY DEF Stored, Whole

(* Only the target of the save under way can change.                       *)
LEMMA StoredElsewhere ==
  ASSUME FileInv, NEW q \in Path, NEW F \in Seq(Unit), NEW im \in Seq(Unit), NEW P \in Programs,
         files' = [files EXCEPT ![q] = F], image' = [image EXCEPT ![q] = im],
         origin' = [origin EXCEPT ![q] = P]
  PROVE  Stored' = [Stored EXCEPT ![q] = Stored'[q]]
<1>1. /\ files \in [Path -> Seq(Unit) \cup {NoFile, Foreign}]
      /\ image \in [Path -> Seq(Unit)] /\ origin \in [Path -> Programs \cup {None}]
  BY DEF FileInv
<1>2. ASSUME NEW p \in Path \ {q} PROVE Stored'[p] = Stored[p]
  <2>1. files'[p] = files[p] /\ image'[p] = image[p] /\ origin'[p] = origin[p]
    BY <1>1, <1>2
  <2> QED BY <2>1 DEF Stored, Whole
<1>3. /\ DOMAIN Stored = Path /\ Stored = [p \in Path |-> Stored[p]]
      /\ DOMAIN Stored' = Path /\ Stored' = [p \in Path |-> Stored'[p]]
  BY DEF Stored
<1> DEFINE a == Stored
           b == Stored'
<1>4. /\ a = [p \in Path |-> a[p]] /\ b = [p \in Path |-> b[p]]
      /\ \A p \in Path \ {q} : b[p] = a[p]
  BY <1>2, <1>3
<1>5. b = [a EXCEPT ![q] = b[q]]
  <2> HIDE DEF a, b
  <2> QED BY <1>4
<1> QED BY <1>5

LEMMA AcceptsIs ==
  ASSUME NEW p \in Path
  PROVE  [r \in Path |-> {LoadersFor(r)[k] : k \in DOMAIN LoadersFor(r)}][p] = Formats(p)
BY DEF Formats

LEMMA MapsLoad == PkgInv /\ LoadDone => Store!StoreNext
<1> SUFFICES ASSUME PkgInv, LoadDone PROVE Store!StoreNext
  OBVIOUS
<1>1. /\ stage = "loading" /\ program' = acc /\ verdict' = "loaded"
      /\ UNCHANGED <<files, image, origin>>
  BY DEF LoadDone, Loading, historyVars
<1>2. /\ path \in Path /\ Whole(path) /\ acc = origin[path]
      /\ image[path][1].magic \in Formats(path)
  BY LoadedIsSaved
<1>3. FileInv /\ program = None
  BY <1>1 DEF PkgInv, ProcInv
<1>4. Stored[path] = [format |-> image[path][1].magic, program |-> origin[path]]
      /\ Stored[path] \in [format : Format, program : Programs]
  BY <1>2, <1>3, StoredIs
<1>5. Stored' = Stored
  BY <1>1, StoredKept
<1>6. Stored[path].format = image[path][1].magic /\ Stored[path].program = acc
  BY <1>2, <1>4
<1>7. Store!Loadable(path)
  BY <1>2, <1>4, <1>6, AcceptsIs DEF Store!Loadable, Store!Package
<1>8. Store!Load(path)
  BY <1>1, <1>3, <1>5, <1>6, <1>7 DEF Store!Load
<1> QED BY <1>2, <1>8 DEF Store!StoreNext

LEMMA MapsRefused == PkgInv /\ Refused => Store!StoreNext
<1> SUFFICES ASSUME PkgInv, Refused PROVE Store!StoreNext
  OBVIOUS
<1>1. /\ stage = "loading" /\ LoaderThrows /\ Len(loaders) = 1 /\ program' = program
      /\ verdict' = "refused" /\ UNCHANGED <<files, image, origin>>
  BY DEF Refused, Loading, historyVars
<1>2. path \in Path /\ FileInv /\ program = None /\ LoadInv
  BY <1>1 DEF PkgInv, ProcInv
<1>3. Stored' = Stored
  BY <1>1, StoredKept
<1>4. ASSUME Store!Loadable(path) PROVE FALSE
  <2>1. Stored[path] \in [format : Format, program : Programs] /\ Stored[path].format \in Formats(path)
    BY <1>2, <1>4, AcceptsIs DEF Store!Loadable, Store!Package
  <2>2. Whole(path)
    BY <1>2, <2>1, StoredIs, PackageAssumption
  <2>3. Stored[path].format = image[path][1].magic
    <3>1. Stored[path] = [format |-> image[path][1].magic, program |-> origin[path]]
      BY <1>2, <2>2, StoredIs
    <3> QED BY <3>1
  <2>4. PICK k \in 1 .. Len(loaders) : loaders[k] = image[path][1].magic
    BY <1>1, <1>2, <2>1, <2>2, <2>3 DEF LoadInv
  <2>5. k = 1
    BY <1>1, <2>4
  <2> QED BY <1>1, <2>2, <2>4, <2>5, WholeIsRead
<1>5. Store!Refuse(path)
  BY <1>1, <1>2, <1>3, <1>4 DEF Store!Refuse
<1> QED BY <1>2, <1>5 DEF Store!StoreNext

LEMMA MapsOpen == PkgInv /\ OpenForWriting => Store!StoreNext
<1> SUFFICES ASSUME PkgInv, OpenForWriting PROVE Store!StoreNext
  OBVIOUS
<1>1. /\ stage = "ready" /\ saves # <<>>
      /\ files' = [files EXCEPT ![Target] = <<>>] /\ origin' = [origin EXCEPT ![Target] = program]
      /\ program' = program /\ verdict' = verdict
  BY DEF OpenForWriting
<1>2. PICK order \in Orders(DOMAIN program.symbols) :
        /\ rest' = Serial(program, saves[1].format, order)
        /\ image' = [image EXCEPT ![Target] = rest']
  BY DEF OpenForWriting
<1>3. FileInv /\ program \in Programs /\ program # None /\ saves \in Seq(Savings)
  BY <1>1 DEF PkgInv, ProcInv
<1>4. Target \in Path /\ saves[1].format \in Format
  BY <1>1, <1>3, TargetTyped
<1>5. SerialOf(rest', program)
  BY <1>2, <1>3, <1>4, SerialIs
<1>6. FileInv' /\ saves' = saves
  BY OpenForWritingKeeps DEF PkgInv, OpenForWriting
<1> DEFINE e == <<>>
<1>7. e \in Seq(Unit) /\ Len(e) = 0
  BY EmptySeq
<1>8. files' = [files EXCEPT ![Target] = e]
  BY <1>1
<1> HIDE DEF e
<1>9. files'[Target] = e /\ image'[Target] = rest' /\ origin'[Target] = program
  BY <1>1, <1>2, <1>3, <1>4, <1>8 DEF FileInv
<1>10. Len(rest') >= 1
  <2>1. rest'[1] = Header(program, rest'[1].magic) /\ Len(rest') = EndOfSymbols(rest'[1])
        /\ rest'[1].magic \in Format
    BY <1>5 DEF SerialOf
  <2> DEFINE h == rest'[1]
  <2>2. /\ Front(h.magic) \in {1, 2} /\ EndOfCode(h) = Front(h.magic) + Len(program.code)
        /\ EndOfSegments(h) = EndOfCode(h) + Len(program.data_segments)
        /\ EndOfSymbols(h) = EndOfSegments(h) + Cardinality(DOMAIN program.symbols)
        /\ Len(program.code) \in Nat /\ Len(program.data_segments) \in Nat
        /\ Cardinality(DOMAIN program.symbols) \in Nat
    BY <1>3, <2>1, HeaderTyped, ProgramFields
  <2>3. Len(rest') = EndOfSymbols(h)
    BY <2>1
  <2> HIDE DEF h
  <2> QED BY <2>2, <2>3
<1>11. e # rest' /\ e # NoFile
  <2>1. e # NoFile
    BY <1>7, UnitAssumption
  <2>2. ASSUME e = rest' PROVE FALSE
    <3>1. Len(e) = Len(rest')
      BY <2>2
    <3> QED BY <3>1, <1>7, <1>10
  <2> QED BY <2>1, <2>2
<1>12. Stored'[Target] = Damaged
  BY <1>4, <1>9, <1>11 DEF Stored, Whole
<1>13. Stored' = [Stored EXCEPT ![Target] = Damaged]
  <2>1. rest' \in Seq(Unit)
    BY <1>5 DEF SerialOf
  <2>2. Stored' = [Stored EXCEPT ![Target] = Stored'[Target]]
    BY <2>1, <1>1, <1>2, <1>3, <1>4, <1>7, <1>8, StoredElsewhere
  <2> QED BY <2>2, <1>12
<1>14. Store!Spoil(Target)
  BY <1>1, <1>3, <1>13 DEF Store!Spoil
<1> QED BY <1>4, <1>14 DEF Store!StoreNext

(* A file that grows may become whole; it is never another program.        *)
LEMMA GrowsInto ==
  ASSUME PkgInv, stage = "saving", FileInv',
         NEW units \in Seq(Unit), NEW n \in 0 .. Len(units), Reaches(units, n),
         UNCHANGED <<image, origin>>
  PROVE  \/ /\ Stored' = [Stored EXCEPT ![Target] = [format |-> saves[1].format, program |-> program]]
            /\ files'[Target] = image[Target]
         \/ Stored' = Stored
<1>0. PICK q \in Path : q = Target
  BY SavingTyped
<1> DEFINE F == files[q] \o SubSeq(units, 1, n)
<1>1. /\ FileInv /\ q \in Path /\ program \in Programs /\ program # None
      /\ image[q][1].magic = saves[1].format /\ origin[q] = program
      /\ files[q] \in Seq(Unit) /\ image[q] \in Seq(Unit)
      /\ image' = [image EXCEPT ![q] = image[q]]
      /\ origin' = [origin EXCEPT ![q] = program]
  BY <1>0, SavingTyped
<1>2. files' = [files EXCEPT ![q] = F]
  BY <1>0 DEF Reaches
<1>3. files'[q] = F
  BY <1>1, <1>2 DEF FileInv
<1>4. F \in Seq(Unit) /\ Len(F) >= Len(files[q]) /\ \A i \in 1 .. Len(files[q]) : F[i] = files[q][i]
  <2> DEFINE c == SubSeq(units, 1, n)
             f == files[q]
  <2>1. c \in Seq(Unit)
    <3>1. 1 \in 1 .. Len(units) + 1 /\ n \in 1 - 1 .. Len(units)
      BY LenProperties
    <3> QED BY <3>1, SubSeqProperties
  <2>2. f \in Seq(Unit)
    BY <1>1
  <2> HIDE DEF c, f
  <2>3. /\ f \o c \in Seq(Unit) /\ Len(f \o c) = Len(f) + Len(c) /\ Len(f) \in Nat /\ Len(c) \in Nat
        /\ \A i \in 1 .. Len(f) + Len(c) : (f \o c)[i] = IF i <= Len(f) THEN f[i] ELSE c[i - Len(f)]
    BY <2>1, <2>2, ConcatProperties, LenProperties
  <2>4. Len(f \o c) >= Len(f) /\ \A i \in 1 .. Len(f) : (f \o c)[i] = f[i]
    BY <2>3
  <2> QED BY <2>3, <2>4 DEF c, f
<1> HIDE DEF F
<1>5. image'[q] = image[q] /\ origin'[q] = program
  BY <1>1
<1>6. Saved(q)'
  BY <1>1, <1>5 DEF FileInv, Unsaved
<1>7. Len(F) <= Len(image[q]) /\ Len(F) \in Nat /\ Len(files[q]) \in Nat
  <2>1. Begins(F, image[q])
    BY <1>3, <1>5, <1>6 DEF Saved
  <2> QED BY <2>1, <1>1, <1>4, LenProperties DEF Begins
<1>8. CASE F = image[q]
  <2>1. F # NoFile
    BY <1>4, UnitAssumption
  <2>2. Stored'[q] = [format |-> saves[1].format, program |-> program]
    BY <1>1, <1>3, <1>5, <1>8, <2>1 DEF Stored, Whole
  <2>3. Stored' = [Stored EXCEPT ![q] = [format |-> saves[1].format, program |-> program]]
    <3>1. Stored' = [Stored EXCEPT ![q] = Stored'[q]]
      BY <1>1, <1>2, <1>4, StoredElsewhere
    <3> QED BY <2>2, <3>1
  <2> QED BY <1>0, <1>3, <1>8, <2>3
<1>9. CASE F # image[q]
  <2>1. files[q] # image[q]
    <3> SUFFICES ASSUME files[q] = image[q] PROVE FALSE
      OBVIOUS
    <3>1. Len(F) = Len(image[q]) /\ \A i \in 1 .. Len(F) : F[i] = image[q][i]
      BY <1>4, <1>7
    <3> QED BY <1>1, <1>4, <1>9, <3>1, SeqEqual
  <2>2. F # NoFile /\ files[q] # NoFile
    BY <1>1, <1>4, UnitAssumption
  <2>3. Stored'[q] = Damaged /\ Stored[q] = Damaged
    BY <1>1, <1>3, <1>5, <1>9, <2>1, <2>2 DEF Stored, Whole
  <2>4. Stored' = [Stored EXCEPT ![q] = Damaged]
    <3>1. Stored' = [Stored EXCEPT ![q] = Stored'[q]]
      BY <1>1, <1>2, <1>4, StoredElsewhere
    <3> QED BY <2>3, <3>1
  <2>5. Stored = [p \in Path |-> Stored[p]]
    BY DEF Stored
  <2> DEFINE a == Stored
             b == Stored'
  <2>6. b = [a EXCEPT ![q] = Damaged] /\ a[q] = Damaged /\ a = [p \in Path |-> a[p]]
    BY <2>3, <2>4, <2>5
  <2>7. b = a
    <3> HIDE DEF a, b
    <3> QED BY <2>6, <1>1
  <2> QED BY <2>7
<1> QED BY <1>8, <1>9

LEMMA MapsWriteThrough == PkgInv /\ WriteThrough => [Store!StoreNext]_Store!storeVars
<1> SUFFICES ASSUME PkgInv, WriteThrough PROVE [Store!StoreNext]_Store!storeVars
  OBVIOUS
<1> DEFINE u == Append(buffer, rest[1])
<1>1. /\ stage = "saving" /\ rest # <<>> /\ Reaches(u, Len(buffer) + 1)
      /\ UNCHANGED <<program, verdict, image, origin>>
  BY DEF WriteThrough, historyVars
<1>2. FileInv'
  BY WriteThroughKeeps DEF PkgInv
<1>3. u \in Seq(Unit) /\ Len(u) = Len(buffer) + 1 /\ Len(buffer) \in Nat
  <2>1. buffer \in Seq(Unit) /\ rest \in Seq(Unit) /\ 1 \in 1 .. Len(rest)
    BY <1>1, SavingTyped, EmptySeq, HeadTailProperties
  <2>2. rest[1] \in Unit
    BY <2>1, ElementOfSeq
  <2> QED BY <2>1, <2>2, AppendProperties, LenProperties
<1> HIDE DEF u
<1>4. Len(buffer) + 1 \in 0 .. Len(u)
  BY <1>3
<1>5. \/ Stored' = [Stored EXCEPT ![Target] = [format |-> saves[1].format, program |-> program]]
      \/ Stored' = Stored
  BY <1>1, <1>2, <1>3, <1>4, GrowsInto
<1>6. Target \in Path /\ saves[1].format \in Format /\ program # None
  BY <1>1, SavingTyped
<1>7. CASE Stored' = Stored
  BY <1>1, <1>7 DEF Store!storeVars
<1>8. CASE Stored' = [Stored EXCEPT ![Target] = [format |-> saves[1].format, program |-> program]]
  <2>1. Store!Save(Target, saves[1].format)
    BY <1>1, <1>6, <1>8 DEF Store!Save
  <2> QED BY <1>6, <2>1 DEF Store!StoreNext, Format
<1> QED BY <1>5, <1>7, <1>8

LEMMA MapsClose == PkgInv /\ Close => [Store!StoreNext]_Store!storeVars
<1> SUFFICES ASSUME PkgInv, Close PROVE [Store!StoreNext]_Store!storeVars
  OBVIOUS
<1>1. stage = "saving" /\ UNCHANGED <<program, verdict, image, origin>>
  BY DEF Close
<1>2. PICK n \in 0 .. Len(buffer) : Reaches(buffer, n)
  BY DEF Close
<1>3. FileInv'
  BY CloseKeeps DEF PkgInv
<1>5. \/ Stored' = [Stored EXCEPT ![Target] = [format |-> saves[1].format, program |-> program]]
      \/ Stored' = Stored
  BY <1>1, <1>2, <1>3, SavingTyped, GrowsInto
<1>6. Target \in Path /\ saves[1].format \in Format /\ program # None
  BY <1>1, SavingTyped
<1>7. CASE Stored' = Stored
  BY <1>1, <1>7 DEF Store!storeVars
<1>8. CASE Stored' = [Stored EXCEPT ![Target] = [format |-> saves[1].format, program |-> program]]
  <2>1. Store!Save(Target, saves[1].format)
    BY <1>1, <1>6, <1>8 DEF Store!Save
  <2> QED BY <1>6, <2>1 DEF Store!StoreNext, Format
<1> QED BY <1>5, <1>7, <1>8

LEMMA MapsEnd ==
  ASSUME PkgInv, OpenFails \/ WriteFails \/ Return \/ Kill
  PROVE  Store!StoreNext
<1>1. program' = None /\ verdict' = "none"
  BY DEF OpenFails, WriteFails, Return, Kill, Stop
<1>2. CASE WriteFails
  <2>1. stage = "saving" /\ rest # <<>> /\ UNCHANGED <<image, origin>>
    BY <1>2 DEF WriteFails, Stop
  <2>2. PICK n \in 0 .. Len(buffer) : Reaches(buffer, n)
    BY <1>2 DEF WriteFails
  <2>3. FileInv'
    BY <1>2, WriteFailsKeeps DEF PkgInv
  <2>4. Target \in Path /\ files[Target] \in Seq(Unit) /\ buffer \in Seq(Unit) /\ FileInv
    BY <2>1, SavingTyped
  <2>5. files'[Target] = files[Target] \o SubSeq(buffer, 1, n)
    BY <2>2, <2>4 DEF Reaches, FileInv
  <2>6. Len(files'[Target]) = Len(files[Target]) + n
    <3> DEFINE c == SubSeq(buffer, 1, n)
               f == files[Target]
    <3>1. c \in Seq(Unit) /\ Len(c) = IF 1 <= n THEN n - 1 + 1 ELSE 0
      <4>1. 1 \in 1 .. Len(buffer) + 1 /\ n \in 1 - 1 .. Len(buffer)
        BY <2>4, LenProperties
      <4> QED BY <4>1, <2>4, SubSeqProperties
    <3>2. f \in Seq(Unit) /\ files'[Target] = f \o c
      BY <2>4, <2>5
    <3> HIDE DEF c, f
    <3>3. Len(c) = n
      BY <3>1
    <3>4. Len(f \o c) = Len(f) + n
      BY <3>1, <3>2, <3>3, ConcatProperties
    <3> QED BY <3>2, <3>4 DEF f
  <2>7. files'[Target] # image[Target]
    BY <2>1, <2>6, Unwritten
  <2>8. Stored' = Stored
    BY <2>1, <2>2, <2>3, <2>4, <2>7, GrowsInto
  <2> QED BY <1>1, <2>8 DEF Store!StoreNext, Store!Leave
<1>3. CASE OpenFails \/ Return \/ Kill
  <2>1. UNCHANGED <<files, image, origin>>
    BY <1>3 DEF OpenFails, Return, Kill, Stop
  <2> QED BY <1>1, <2>1, StoredKept DEF Store!StoreNext, Store!Leave
<1> QED BY <1>2, <1>3

LEMMA PkgMaps == PkgInv /\ [PkgNext]_pkgVars => [Store!StoreNext]_Store!storeVars
<1> SUFFICES ASSUME PkgInv, [PkgNext]_pkgVars PROVE [Store!StoreNext]_Store!storeVars
  OBVIOUS
<1>1. CASE StartAssembling
  <2>1. program = None /\ program' \in Programs /\ verdict' = "none" /\ UNCHANGED <<files, image, origin>>
    BY <1>1 DEF StartAssembling, Start, historyVars, PkgInv, ProcInv
  <2> QED BY <2>1, StoredKept DEF Store!StoreNext, Store!Assemble
<1>2. ASSUME NEW p \in Path, StartLoading(p) PROVE Store!StoreNext
  <2>1. program' = None /\ verdict' = "none" /\ UNCHANGED <<files, image, origin>>
    BY <1>2 DEF StartLoading, Start, historyVars, PkgInv, ProcInv
  <2> QED BY <2>1, StoredKept DEF Store!StoreNext, Store!Leave
<1>3. CASE ReadHeader \/ ReadUnit \/ NextLoader \/ WriteBuffered \/ UNCHANGED pkgVars
  <2>1. UNCHANGED <<files, image, origin, program, verdict>>
    BY <1>3 DEF ReadHeader, ReadUnit, NextLoader, Loading, WriteBuffered, historyVars, pkgVars
  <2> QED BY <2>1, StoredKept DEF Store!storeVars
<1>4. CASE LoadDone
  BY <1>4, MapsLoad
<1>5. CASE Refused
  BY <1>5, MapsRefused
<1>6. CASE OpenForWriting
  BY <1>6, MapsOpen
<1>7. CASE WriteThrough
  BY <1>7, MapsWriteThrough
<1>8. CASE Close
  BY <1>8, MapsClose
<1>9. CASE OpenFails \/ WriteFails \/ Return \/ Kill
  BY <1>9, MapsEnd
<1> QED BY <1>1, <1>2, <1>3, <1>4, <1>5, <1>6, <1>7, <1>8, <1>9 DEF PkgNext, Steps

(* Saving and loading implement the store of programs.                     *)
THEOREM StoreCorrect == PkgSpec => StoreImplemented
<1>1. PkgInit => Store!StoreInit
  <2> SUFFICES ASSUME PkgInit PROVE Store!StoreInit
    OBVIOUS
  <2>1. \A p \in Path : Stored[p] \in {NoFile, Damaged}
    BY DEF PkgInit, Stored, Whole
  <2>2. Stored = [p \in Path |-> Stored[p]]
    BY DEF Stored
  <2> DEFINE a == Stored
  <2>3. a \in [Path -> {NoFile, Damaged}]
    <3>1. a = [p \in Path |-> a[p]] /\ \A p \in Path : a[p] \in {NoFile, Damaged}
      BY <2>1, <2>2
    <3> HIDE DEF a
    <3> QED BY <3>1
  <2> QED BY <2>3 DEF Store!StoreInit, PkgInit
<1> QED BY <1>1, PkgHolds, PkgMaps, PTL DEF PkgSpec, StoreImplemented, Store!StoreSpec
-----------------------------------------------------------------------------
LEMMA TripleDescends ==
  ASSUME NEW a \in Nat, NEW b \in Nat, NEW c \in Nat, NEW x \in Nat, NEW y \in Nat, NEW z \in Nat,
         x < a \/ (x = a /\ y < b) \/ (x = a /\ y = b /\ z < c)
  PROVE  Descends(<<a, b, c>>, <<x, y, z>>)
<1> DEFINE r == <<a, b, c>>
           s == <<x, y, z>>
<1>1. /\ DOMAIN r = {1, 2, 3} /\ DOMAIN s = {1, 2, 3}
      /\ r[1] = a /\ r[2] = b /\ r[3] = c /\ s[1] = x /\ s[2] = y /\ s[3] = z
  OBVIOUS
<1> HIDE DEF r, s
<1>2. IsRank(r) /\ IsRank(s)
  BY <1>1 DEF IsRank
<1>3. Descends(r, s)
  BY <1>1, <1>2 DEF Descends
<1> QED BY <1>3 DEF r, s

(* A loader never stands behind the unit after the last of its file.       *)
LEMMA PlaceInFile ==
  ASSUME PkgInv, stage = "loading", File # NoFile
  PROVE  Len(File) \in Nat /\ pos \in Nat /\ pos >= 1 /\ pos <= Len(File) + 1
<1>1. path \in Path /\ pos \in Nat \ {0}
  BY DEF PkgInv, ProcInv, LoadInv
<1>2. files[path] \in Seq(Unit) \cup {NoFile, Foreign}
  BY <1>1 DEF PkgInv, FileInv
<1>3. Len(File) \in Nat
  <2>1. CASE files[path] \in Seq(Unit)
    BY <2>1, LenProperties DEF File
  <2>2. CASE files[path] = Foreign
    BY <2>2 DEF File, Foreign
  <2> QED BY <1>2, <2>1, <2>2 DEF File
<1>4. pos > 1 => pos - 1 <= Len(File)
  BY DEF PkgInv, LoadInv, Reading, File
<1> QED BY <1>1, <1>3, <1>4

LEMMA WorkTyped ==
  ASSUME PkgInv
  PROVE  PhasesLeft \in Nat /\ JobsLeft \in Nat /\ UnitsLeft \in Nat
<1>1. Len(loaders) \in Nat /\ Len(saves) \in Nat /\ Len(rest) \in Nat
  BY LenProperties DEF PkgInv, LoadInv, ProcInv, SaveInv
<1>2. PhasesLeft \in Nat /\ JobsLeft \in Nat
  BY <1>1 DEF PhasesLeft, JobsLeft
<1>3. UnitsLeft \in Nat
  <2>1. CASE stage = "loading" /\ File # NoFile
    BY <2>1, PlaceInFile DEF UnitsLeft
  <2> QED BY <1>1, <2>1 DEF UnitsLeft
<1> QED BY <1>2, <1>3

LEMMA WorkTypedNext == PkgInv' => PhasesLeft' \in Nat /\ JobsLeft' \in Nat /\ UnitsLeft' \in Nat
<1>1. (PkgInv => PhasesLeft \in Nat /\ JobsLeft \in Nat /\ UnitsLeft \in Nat)'
  BY WorkTyped, PTL
<1> QED BY <1>1

LEMMA StepShrinks ==
  ASSUME PkgInv, stage # "idle", PkgNext
  PROVE  Descends(<<PhasesLeft, JobsLeft, UnitsLeft>>, <<PhasesLeft', JobsLeft', UnitsLeft'>>)
<1>1. PkgInv'
  BY PkgStep
<1>2. /\ PhasesLeft \in Nat /\ JobsLeft \in Nat /\ UnitsLeft \in Nat
      /\ PhasesLeft' \in Nat /\ JobsLeft' \in Nat /\ UnitsLeft' \in Nat
  BY <1>1, WorkTyped, WorkTypedNext
<1>3. /\ stage \in {"loading", "ready", "saving"}
      /\ loaders \in Seq(Format) /\ saves \in Seq(Savings) /\ rest \in Seq(Unit)
      /\ Len(loaders) \in Nat /\ Len(saves) \in Nat /\ Len(rest) \in Nat
  BY LenProperties DEF PkgInv, ProcInv, LoadInv, SaveInv
<1>4. CASE OpenFails \/ WriteFails \/ Return \/ Kill \/ Refused
  <2>1. stage' = "idle"
    BY <1>4 DEF OpenFails, WriteFails, Return, Kill, Refused, Stop
  <2>2. PhasesLeft' < PhasesLeft
    BY <1>3, <2>1 DEF PhasesLeft
  <2> QED BY <1>2, <2>2, TripleDescends
<1>5. CASE ReadHeader \/ ReadUnit
  <2>1. /\ stage = "loading" /\ stage' = "loading" /\ loaders' = loaders
        /\ Readable /\ pos' = pos + 1 /\ files' = files /\ path' = path
    BY <1>5 DEF ReadHeader, ReadUnit, Loading, GoodHeader
  <2>2. PhasesLeft' = PhasesLeft /\ JobsLeft' = JobsLeft
    BY <2>1 DEF PhasesLeft, JobsLeft
  <2>3. File # NoFile /\ File' = File
    BY <2>1 DEF Readable, File
  <2>4. UnitsLeft = Len(File) + 1 - pos /\ UnitsLeft' = Len(File) + 1 - (pos + 1)
    BY <2>1, <2>3 DEF UnitsLeft
  <2>5. UnitsLeft' < UnitsLeft
    BY <2>1, <2>3, <2>4, PlaceInFile
  <2> QED BY <1>2, <2>2, <2>5, TripleDescends
<1>6. CASE LoadDone
  <2>1. stage = "loading" /\ stage' = "ready"
    BY <1>6 DEF LoadDone, Loading
  <2>2. PhasesLeft' < PhasesLeft
    BY <2>1 DEF PhasesLeft
  <2> QED BY <1>2, <2>2, TripleDescends
<1>7. CASE NextLoader
  <2>1. stage = "loading" /\ stage' = stage /\ loaders' = Tail(loaders) /\ Len(loaders) > 1
    BY <1>7 DEF NextLoader, Loading
  <2>2. Len(loaders') = Len(loaders) - 1
    BY <1>3, <2>1, HeadTailProperties
  <2>3. PhasesLeft' = PhasesLeft /\ JobsLeft' < JobsLeft
    BY <1>3, <2>1, <2>2 DEF PhasesLeft, JobsLeft
  <2> QED BY <1>2, <2>3, TripleDescends
<1>8. CASE OpenForWriting
  <2>1. stage = "ready" /\ stage' = "saving" /\ saves' = saves
    BY <1>8 DEF OpenForWriting
  <2>2. PhasesLeft' = PhasesLeft /\ JobsLeft' < JobsLeft
    BY <1>3, <2>1 DEF PhasesLeft, JobsLeft
  <2> QED BY <1>2, <2>2, TripleDescends
<1>9. CASE WriteBuffered \/ WriteThrough
  <2>1. stage = "saving" /\ stage' = stage /\ saves' = saves /\ rest # <<>> /\ rest' = Tail(rest)
    BY <1>9 DEF WriteBuffered, WriteThrough, saveVars
  <2>2. Len(rest') = Len(rest) - 1
    BY <1>3, <2>1, HeadTailProperties
  <2>3. PhasesLeft' = PhasesLeft /\ JobsLeft' = JobsLeft
    BY <2>1 DEF PhasesLeft, JobsLeft
  <2>4. UnitsLeft' < UnitsLeft
    BY <1>3, <2>1, <2>2 DEF UnitsLeft
  <2> QED BY <1>2, <2>3, <2>4, TripleDescends
<1>10. CASE Close
  <2>1. stage = "saving" /\ stage' = "ready" /\ saves' = Tail(saves) /\ saves # <<>>
    BY <1>10 DEF Close, PkgInv, ProcInv
  <2>2. Len(saves') = Len(saves) - 1
    BY <1>3, <2>1, HeadTailProperties
  <2>3. PhasesLeft' = PhasesLeft /\ JobsLeft' < JobsLeft
    BY <1>3, <2>1, <2>2 DEF PhasesLeft, JobsLeft
  <2> QED BY <1>2, <2>3, TripleDescends
<1> QED
  BY <1>4, <1>5, <1>6, <1>7, <1>8, <1>9, <1>10
  DEF PkgNext, Steps, StartAssembling, StartLoading, Start

(* A process always has less to do after a step: phases, loaders and       *)
(* saves, or units.                                                        *)
THEOREM ProcessCorrect == PkgSpec => ProcessShrinks
<1>1. PkgInv /\ [PkgNext]_pkgVars =>
        [stage # "idle" =>
           Descends(<<PhasesLeft, JobsLeft, UnitsLeft>>, <<PhasesLeft', JobsLeft', UnitsLeft'>>)]_pkgVars
  BY StepShrinks
<1> QED BY <1>1, PkgHolds, PTL DEF PkgSpec, ProcessShrinks
=============================================================================
