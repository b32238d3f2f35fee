-------------------------------- MODULE Json --------------------------------
(***************************************************************************)
(* The stack_json library in use.  A job either builds a document from     *)
(* parts, emits it to a buffer (perhaps twice) and parses what the buffer  *)
(* then holds, or parses a given text: whole, laid out in some style, or   *)
(* cut off.  After a parse the dynamic nodes are read element by element,  *)
(* and the block of the first may be parsed again with other bindings.     *)
(* Everything runs in one thread; a behaviour is one job.                  *)
(***************************************************************************)
EXTENDS JsonWriter, JsonParser

CONSTANT Jobs
(* A job: docs    the documents to add to the builder; none: text is given   *)
(*        room    the places of the builder's storage                       *)
(*        buffer  the buffer to emit to, emits  how often (1 or 2)          *)
(*        text    the text to parse, whole  whether it is a whole text      *)
(*        tree    what the document or the text stands for                  *)
(*        nodes   the bindings, sub  those for the block of the first       *)

ASSUME JobsAssumption ==
  \A j \in Jobs :
    /\ j.docs \in Seq(Seq(Nodes))
    /\ Apart(UNION {Range(j.docs[k]) : k \in DOMAIN j.docs})
    /\ j.room \in Nat
    /\ Fresh(j.buffer)
    /\ j.emits \in 0..2
    /\ j.text \in Strings
    /\ j.nodes \in Seq(BindNodes)
    /\ j.sub \in Seq(BindNodes)
    /\ j.sub # <<>> => j.nodes # <<>>

VARIABLES
  job,
  stage,      \* "build", "emit", "text", "parse", "extract" or "done"
  step        \* documents added, emissions begun, or the node being read

vars == <<job, stage, step, builder, out, calls, emitted, scan, bound>>

Init ==
  /\ job \in Jobs
  /\ stage = IF job.docs = <<>> THEN "text" ELSE "build"
  /\ step = 0
  /\ builder = <<>>
  /\ out = job.buffer
  /\ calls = <<>>
  /\ emitted = {}
  /\ scan = Scan(<<>>, <<>>, <<>>)
  /\ bound = <<>>

AddDocument ==
  /\ stage = "build" /\ step < Len(job.docs)
  /\ Add(job.room, job.docs[step + 1])
  /\ step' = step + 1
  /\ UNCHANGED <<job, stage, out, calls, emitted, parserVars>>

Emit ==
  /\ stage = "build" /\ step = Len(job.docs)
  /\ StartEmit(out)
  /\ stage' = "emit"
  /\ step' = 1
  /\ UNCHANGED <<job, parserVars>>

Writing ==
  /\ stage = "emit"
  /\ WriterStep
  /\ UNCHANGED <<job, stage, step, parserVars>>

EmissionOver == stage = "emit" /\ calls = <<>>
Incomplete == out.bad \/ out.pretty.bad

EmitAgain ==
  /\ EmissionOver /\ step < job.emits
  /\ StartEmit(Reset(out))
  /\ step' = step + 1
  /\ UNCHANGED <<job, stage, parserVars>>

ReadBack ==
  /\ EmissionOver /\ step = job.emits /\ ~Incomplete
  /\ StartParse(out.text, job.nodes, <<>>)
  /\ stage' = "parse"
  /\ step' = 0
  /\ UNCHANGED <<job, writerVars>>

(* bad() is set: the caller drops what was written. *)
DropIncomplete ==
  /\ EmissionOver /\ step = job.emits /\ Incomplete
  /\ stage' = "done"
  /\ UNCHANGED <<job, step, writerVars, parserVars>>

ReadText ==
  /\ stage = "text"
  /\ StartParse(job.text, job.nodes, <<>>)
  /\ stage' = "parse"
  /\ UNCHANGED <<job, step, writerVars>>

Parsing ==
  /\ stage = "parse"
  /\ ParserStep
  /\ UNCHANGED <<job, stage, step, writerVars>>

ParseReturns ==
  /\ stage = "parse" /\ ~Scanning
  /\ stage' = "extract"
  /\ step' = 1
  /\ UNCHANGED <<job, writerVars, parserVars>>

ReadElement ==
  /\ stage = "extract" /\ step \in DOMAIN bound
  /\ Extract(step)
  /\ UNCHANGED <<job, stage, step, writerVars>>

ReadNext ==
  /\ stage = "extract" /\ step \in DOMAIN bound
  /\ ~(Dynamic(scan.nodes[step]) /\ HasMore(bound[step]))
  /\ step' = step + 1
  /\ UNCHANGED <<job, stage, writerVars, parserVars>>

ExtractionOver == stage = "extract" /\ step > Len(bound)

(* DynamicNodeBase::parse *)
MayParseBlock == job.sub # <<>> /\ scan.root = <<>> /\ bound[1].set /\ ~bound[1].null

ParseBlock ==
  /\ ExtractionOver /\ MayParseBlock
  /\ StartParse(bound[1].raw, job.sub, scan.nodes[1].path)
  /\ stage' = "parse"
  /\ step' = 0
  /\ UNCHANGED <<job, writerVars>>

Finish ==
  /\ ExtractionOver /\ ~MayParseBlock
  /\ stage' = "done"
  /\ UNCHANGED <<job, step, writerVars, parserVars>>

Next ==
  \/ AddDocument \/ Emit \/ Writing \/ EmitAgain \/ ReadBack \/ DropIncomplete
  \/ ReadText \/ Parsing \/ ParseReturns \/ ReadElement \/ ReadNext \/ ParseBlock \/ Finish

Spec == Init /\ [][Next]_vars

(* One thread runs the scanning loop, and nothing in it waits. *)
FairSpec == Spec /\ WF_vars(Parsing) /\ WF_vars(ParseReturns)

-----------------------------------------------------------------------------
(* The positions the code indexes with.  The scanner stays within three    *)
(* places of the end of the text, the depth is never negative, the path    *)
(* stack keeps its size, a StackBuffer never holds more than MaxSize, the  *)
(* decorator is never deeper than a text that is complete so far is long,  *)
(* and the frames stay within their lists (document.cpp, buffer.hpp:50-68, *)
(* parser.cpp:286-475).                                                    *)
TypeOK ==
  /\ stage \in {"build", "emit", "text", "parse", "extract", "done"}
  /\ step \in 0..(Len(job.docs) + Len(bound) + 2)
  /\ Len(out.text) <= out.size
  /\ ~Incomplete => out.pretty.depth \in 0..Len(out.text)
  /\ \A k \in DOMAIN calls : calls[k].at \in 1..(Len(calls[k].list) + 1)
  /\ scan.i \in 1..(Len(scan.json) + 3)
  /\ scan.depth \in 0..Len(scan.json)
  /\ Len(scan.stack) = StackSize(scan.nodes)
  /\ Len(bound) = Len(scan.nodes)

(* Every parse returns, whatever the text, whole or cut off anywhere: no   *)
(* turn of the scanning loop stands still (parser.cpp:375-474).            *)
ParseEnds == stage = "parse" ~> stage = "extract"
=============================================================================
