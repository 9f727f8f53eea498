---------------------------- MODULE ReportCodec ----------------------------
(***************************************************************************)
(* The bytes GetHistory returns and how CoverageDeserializer reads them.   *)
(* A cell is what one primitive write puts into the buffer: an int, a      *)
(* character of a name, or a coverage record, and an offset counts cells.  *)
(* A name is written with its length, which counts the terminating zero.   *)
(***************************************************************************)
EXTENDS Integers, Sequences, FiniteSets, SequencesExt

CONSTANTS
  Characters,      (* of the names of modules and assemblies                *)
  Zero             (* the character that ends a name                        *)

MethodInfos == [token : Nat, assembly : Seq(Characters), module : Seq(Characters)]

Word(n)  == [kind |-> "int", value |-> n]
Char(c) == [kind |-> "char", value |-> c]
Cell(record) == [kind |-> "record", value |-> record]
Cells(Kind(_), values) == [i \in DOMAIN values |-> Kind(values[i])]

Name(n) == <<Word(Len(n) + 1)>> \o Cells(Char, n) \o <<Char(Zero)>>

(* MethodInfo::serialize, after the method's id.                           *)
SerializeMethod(id, info) ==
  <<Word(id), Word(info.token)>> \o Name(info.assembly) \o Name(info.module)

(* invocationFinished and, for a thread that did not enter main, the empty *)
(* report of serializeCoverageReport.                                      *)
SerializeReport(report) ==
  <<Word(report.threadId)>> \o
    IF report.aborted THEN <<Word(1)>>
    ELSE <<Word(0), Word(Len(report.records))>> \o Cells(Cell, report.records)

(* Ids in the order in which serializeCoverageReport's loop finds them.    *)
Ascending(ids) ==
  CHOOSE s \in [1 .. Cardinality(ids) -> ids] : \A i, j \in DOMAIN s : i < j => s[i] < s[j]

Serialize(infos, reports) ==
  LET ids == Ascending(DOMAIN infos)
      Entry(id) == SerializeMethod(id, infos[id])
  IN <<Word(Len(ids))>> \o FlattenSeq(Cells(Entry, ids))
       \o <<Word(Len(reports))>> \o FlattenSeq(Cells(SerializeReport, reports))

-----------------------------------------------------------------------------
(* Reading at an offset: what was read, whether the cells were of the kind *)
(* that is read there, and the offset after it.                            *)
Are(kind, bytes, first, last) ==
  last <= Len(bytes) /\ \A i \in first .. last : bytes[i].kind = kind

ReadInt(bytes, o) ==
  IF Are("int", bytes, o + 1, o + 1)
  THEN [ok |-> TRUE, value |-> bytes[o + 1].value, next |-> o + 1]
  ELSE [ok |-> FALSE, value |-> 0, next |-> o]

(* There may be fewer.                                                     *)
ValuesAt(bytes, first, last) ==
  IF last <= Len(bytes) THEN [i \in 1 .. last - first + 1 |-> bytes[first + i - 1].value]
  ELSE <<>>

(* Seeded defect: the terminator is taken for a part of the name.          *)
ReadStringWhole(bytes, o) ==
  LET size == ReadInt(bytes, o)
      last == size.next + size.value
  IN [ok |-> size.ok /\ size.value > 0 /\ Are("char", bytes, size.next + 1, last),
      value |-> ValuesAt(bytes, size.next + 1, last), next |-> last]

ReadString(bytes, o) ==
  LET size == ReadInt(bytes, o)
      last == size.next + size.value
  IN [ok |-> size.ok /\ size.value > 0 /\ Are("char", bytes, size.next + 1, last),
      value |-> ValuesAt(bytes, size.next + 1, last - 1), next |-> last]

(* deserializeMethodData, with the key of the dictionary before it.        *)
ReadMethodEntry(bytes, o) ==
  LET id       == ReadInt(bytes, o)
      token    == ReadInt(bytes, id.next)
      assembly == ReadString(bytes, token.next)
      module   == ReadString(bytes, assembly.next)
  IN [ok |-> id.ok /\ token.ok /\ assembly.ok /\ module.ok, id |-> id.value,
      value |-> [token |-> token.value, assembly |-> assembly.value, module |-> module.value],
      next |-> module.next]

(* deserializeRawReport and deserializeCoverageInfoFast.                   *)
ReadReportEntry(bytes, o) ==
  LET threadId == ReadInt(bytes, o)
      aborted  == ReadInt(bytes, threadId.next)
      count    == ReadInt(bytes, aborted.next)
      last     == count.next + count.value
      Report(records) == [threadId |-> threadId.value, records |-> records]
  IN IF aborted.value = 1
     THEN [ok |-> threadId.ok /\ aborted.ok, value |-> Report(<<>>), next |-> aborted.next]
     ELSE [ok |-> threadId.ok /\ aborted.ok /\ count.ok
                    /\ Are("record", bytes, count.next + 1, last),
           value |-> Report(ValuesAt(bytes, count.next + 1, last)), next |-> last]
=============================================================================
