--------------------------- MODULE TraceSinkProofs --------------------------
(***************************************************************************)
(* Proofs about TraceSink for every set of paths.  What `trace status`     *)
(* reports as active is not inductive by itself: `trace on` takes a file   *)
(* that is open, or the path it prefers, on trust.  OpenIsNamed and        *)
(* PreferredIsKnown are the facts it relies on.                            *)
(***************************************************************************)
EXTENDS TraceSink, TLAPS

(* The variables of the sink keep their types: in particular file_path is  *)
(* always a path main() was given, or none.                                *)
THEOREM SinkTypeCorrect == SinkSpec => []SinkTypeOK
<1>1. SinkInit => SinkTypeOK
  BY DEF SinkInit, SinkTypeOK, TraceMode
<1>2. SinkTypeOK /\ [SinkNext]_sinkVars => SinkTypeOK'
  <2> SUFFICES ASSUME SinkTypeOK, [SinkNext]_sinkVars
               PROVE  SinkTypeOK'
    OBVIOUS
  <2> USE DEF SinkTypeOK, TraceMode
  <2>1. CASE TraceOff
    BY <2>1 DEF TraceOff
  <2>2. CASE TraceStdout
    BY <2>2 DEF TraceStdout
  <2>3. CASE TraceOn
    BY <2>3 DEF TraceOn, TraceOnFile, TraceStdout, sinkVars
  <2>4. ASSUME NEW p \in Path, TraceFile(p)
        PROVE  SinkTypeOK'
    BY <2>4 DEF TraceFile
  <2>5. CASE TraceFileAgain
    BY <2>4, <2>5 DEF TraceFileAgain
  <2>6. CASE Emit
    BY <2>6 DEF Emit
  <2>7. CASE UNCHANGED sinkVars
    BY <2>7 DEF sinkVars
  <2> QED
    BY <2>1, <2>2, <2>3, <2>4, <2>5, <2>6, <2>7 DEF SinkNext, TraceCommand
<1> QED
  BY <1>1, <1>2, PTL DEF SinkSpec

(* The file that is open, if any, is the one whose path is remembered.     *)
OpenIsNamed == file # NoPath => file = file_path

SinkInv == ActiveIsReal /\ PreferredIsKnown /\ OpenIsNamed

LEMMA SinkInvStep == SinkInv /\ [SinkNext]_sinkVars => SinkInv'
<1> SUFFICES ASSUME SinkInv, [SinkNext]_sinkVars
             PROVE  SinkInv'
  OBVIOUS
<1> USE DEF SinkInv, ActiveIsReal, PreferredIsKnown, OpenIsNamed
<1>1. CASE TraceOff \/ Emit \/ UNCHANGED sinkVars
  BY <1>1 DEF TraceOff, Emit, sinkVars
<1>2. CASE TraceStdout
  BY <1>2 DEF TraceStdout
<1>3. CASE TraceOnFile
  BY <1>3 DEF TraceOnFile
<1>4. CASE TraceOn
  BY <1>2, <1>3, <1>4 DEF TraceOn, sinkVars
<1>5. ASSUME NEW p, p # NoPath, TraceFile(p)
      PROVE  SinkInv'
  BY <1>5 DEF TraceFile
<1>6. CASE TraceFileAgain
  BY <1>5, <1>6 DEF TraceFileAgain
<1> QED
  BY <1>1, <1>2, <1>4, <1>5, <1>6, SinkAssumption DEF SinkNext, TraceCommand

(* A destination `trace status` reports as active is where the trace goes, *)
(* although the status, the stream of the processor and the file are set   *)
(* apart from one another and an open may fail.                            *)
THEOREM ActiveCorrect == SinkSpec => []ActiveIsReal
<1>1. SinkInit => SinkInv
  BY SinkAssumption DEF SinkInit, SinkInv, ActiveIsReal, PreferredIsKnown, OpenIsNamed
<1>2. SinkInv => ActiveIsReal
  BY DEF SinkInv
<1> QED
  BY <1>1, <1>2, SinkInvStep, PTL DEF SinkSpec

(* `trace on` prefers a file only if it knows one (main.cpp:350): no       *)
(* sequence of failed opens makes the program reopen an empty path.        *)
THEOREM PreferredCorrect == SinkSpec => []PreferredIsKnown
<1>1. SinkInit => SinkInv
  BY SinkAssumption DEF SinkInit, SinkInv, ActiveIsReal, PreferredIsKnown, OpenIsNamed
<1>2. SinkInv => PreferredIsKnown
  BY DEF SinkInv
<1> QED
  BY <1>1, <1>2, SinkInvStep, PTL DEF SinkSpec
=============================================================================
