----------------------------- MODULE TraceSink ------------------------------
(***************************************************************************)
(* Where the instruction trace goes: TraceState of main.cpp, the pointer   *)
(* CPU::trace_stream_ and the file behind both, as the command line sets   *)
(* them and the `trace` commands of the debugger change them.              *)
(*                                                                         *)
(* A file opens or does not (the path may be bad); opening truncates it.   *)
(* Of its content only matters whether it holds lines of this session.     *)
(***************************************************************************)
CONSTANTS Path, NoPath

ASSUME SinkAssumption == NoPath \notin Path

VARIABLES
  preferred, current,  (* TraceState: "None", "Stdout" or "File"           *)
  file_path,           (* TraceState: the last path opened, or asked for   *)
  file,                (* the path TraceState::file has open, or NoPath    *)
  stream,              (* trace_stream_: "null", "stdout" or "file"        *)
  lines                (* the files that hold lines traced in this session *)

sinkVars == <<preferred, current, file_path, file, stream, lines>>

TraceMode == {"None", "Stdout", "File"}

(* main(): no option, --trace, or --trace-file with a path that opens or   *)
(* does not.                                                               *)
SinkInit ==
  /\ lines = {}
  /\ \/ /\ file_path = NoPath /\ file = NoPath /\ stream = "null"
        /\ preferred = "None" /\ current = "None"
     \/ /\ file_path = NoPath /\ file = NoPath /\ stream = "stdout"
        /\ preferred = "Stdout" /\ current = "Stdout"
     \/ /\ file_path \in Path /\ file = file_path /\ stream = "file"
        /\ preferred = "File" /\ current = "File"
     \/ /\ file_path \in Path /\ file = NoPath /\ stream = "null"
        /\ preferred = "None" /\ current = "None"

TraceOff ==
  /\ stream' = "null" /\ current' = "None"
  /\ UNCHANGED <<preferred, file_path, file, lines>>

(* `trace stdout`, and `trace on` when stdout was the last destination.    *)
TraceStdout ==
  /\ stream' = "stdout" /\ preferred' = "Stdout" /\ current' = "Stdout"
  /\ UNCHANGED <<file_path, file, lines>>

(* `trace on` goes back to the file, which it reopens if it has been       *)
(* closed.                                                                 *)
TraceOnFile ==
  /\ preferred = "File"
  /\ \/ /\ file # NoPath
        /\ stream' = "file" /\ current' = "File"
        /\ UNCHANGED <<file, lines>>
     \/ /\ file = NoPath                                  \* it opens
        /\ file' = file_path /\ lines' = lines \ {file_path}
        /\ stream' = "file" /\ current' = "File"
     \/ /\ file = NoPath                                  \* it does not
        /\ UNCHANGED <<stream, current, file, lines>>
  /\ UNCHANGED <<preferred, file_path>>

TraceOn ==
  \/ preferred = "Stdout" /\ TraceStdout
  \/ TraceOnFile
  \/ preferred = "None" /\ UNCHANGED sinkVars

(* Mutant of TraceFile: a failed open leaves the status as it was.         *)
TraceFileKeeping(p) ==
  \/ /\ file' = p /\ file_path' = p /\ lines' = lines \ {p}
     /\ stream' = "file" /\ preferred' = "File" /\ current' = "File"
  \/ file' = NoPath /\ UNCHANGED <<preferred, current, file_path, stream, lines>>

(* `trace file` closes the file before it opens the path: the one named,   *)
(* or the last one (TraceFileAgain).                                       *)
TraceFile(p) ==
  \/ /\ file' = p /\ file_path' = p /\ lines' = lines \ {p}
     /\ stream' = "file" /\ preferred' = "File" /\ current' = "File"
  \/ /\ file' = NoPath /\ current' = "None"
     /\ UNCHANGED <<preferred, file_path, stream, lines>>

TraceFileAgainUnnamed == TraceFile(file_path)  \* mutant: any path will do
TraceFileAgain == file_path # NoPath /\ TraceFile(file_path)

TraceCommand ==
  TraceOff \/ TraceStdout \/ TraceOn \/ (\E p \in Path : TraceFile(p)) \/ TraceFileAgain

(* trace_instruction and check_watchpoints write a line to the stream; one *)
(* written to a file that is not open is lost.                             *)
Emit ==
  /\ stream # "null"
  /\ lines' = IF stream = "file" /\ file # NoPath THEN lines \cup {file} ELSE lines
  /\ UNCHANGED <<preferred, current, file_path, file, stream>>

SinkNext == TraceCommand \/ Emit

SinkSpec == SinkInit /\ [][SinkNext]_sinkVars
-----------------------------------------------------------------------------
SinkTypeOK ==
  /\ preferred \in TraceMode /\ current \in TraceMode
  /\ file_path \in Path \cup {NoPath} /\ file \in Path \cup {NoPath}
  /\ stream \in {"null", "stdout", "file"}
  /\ lines \subseteq Path

(* A destination `trace status` reports as active receives the trace: the  *)
(* stream points there and the file is open under the path reported.       *)
ActiveIsReal ==
  /\ current = "Stdout" => stream = "stdout"
  /\ current = "File"   => stream = "file" /\ file = file_path /\ file # NoPath

(* `trace on` has a file to go back to whenever it prefers one.            *)
PreferredIsKnown == preferred = "File" => file_path # NoPath

(* Line 158 of README.md, "Report the current and last-used trace sink":   *)
(* when the status says that tracing is off, nothing writes a trace.       *)
DisabledIsSilent ==
  current = "None" => stream = "null" \/ (stream = "file" /\ file = NoPath)
=============================================================================
