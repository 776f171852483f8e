------------------------------ MODULE LabelMap ------------------------------
(***************************************************************************)
(* The channel auto-definition exit amqsxlbl (channel/amqsxlbl/            *)
(* amqsxlbl.c), which gives a cluster sender channel the certificate label *)
(* that a configuration file has for its name or one of its clusters.      *)
(*                                                                         *)
(* The file is read at MQXR_INIT into a list on the heap, whose head is    *)
(* kept in the ExitUserArea; the list is walked for each channel and freed *)
(* at MQXR_TERM.                                                           *)
(*                                                                         *)
(* Names and labels are what their bytes and their lengths are to the      *)
(* exit.  A name has `first', its first MQ_CHANNEL_NAME_LENGTH bytes, and  *)
(* `rest', what follows them.  Operators described as "With ..." are       *)
(* variations of the one they precede, kept to show that the properties    *)
(* notice the mistake.                                                     *)
(***************************************************************************)
EXTENDS ChannelCalls

CONSTANTS
  ConfigFiles,  \* what the configuration file may hold: sequences of lines
  Definitions   \* the MQCDs that the exit is called with

NoFile == <<[prefix |-> "none"]>>  \* it cannot be opened, or the variable is not set
NoDefinition == [Version |-> 0]

VARIABLES
  configFile,  \* what the file holds now
  asRead,      \* per channel, what it held at MQXR_INIT
  definition,  \* per channel, the MQCD of the last MQXR_AUTO_CLUSSDR
  certlabl     \* per channel, the CertificateLabel in it after the call

labelVars == <<configFile, asRead, definition, certlabl>>

MQ_CHANNEL_NAME_LENGTH == 20
MQ_CLUSTER_NAME_LENGTH == 48
MQ_CERT_LABEL_LENGTH == 64
MQCD_VERSION_11 == 11

(* MQ's own names are as long as it allows, and two names of channels that *)
(* begin alike are one.                                                    *)
ASSUME LabelMapAssumption ==
  /\ \A file \in ConfigFiles : file \in Seq(ToSet(file)) /\ file # NoFile
  /\ \A cd \in Definitions : 
       /\ cd.Version \in Nat /\ cd # NoDefinition
       /\ cd.ChannelName.length \in 1..MQ_CHANNEL_NAME_LENGTH
       /\ \A name \in ToSet(cd.Clusters) : name.length \in 1..MQ_CLUSTER_NAME_LENGTH
       /\ \A file \in ConfigFiles : \A line \in ToSet(file) : 
            line.name.length <= MQ_CHANNEL_NAME_LENGTH /\ line.name.first = cd.ChannelName.first
              => line.name = cd.ChannelName

Blank == [text |-> "", length |-> 0]

LabelInit ==
  /\ configFile \in ConfigFiles \cup {NoFile}
  /\ asRead = [c \in Channels |-> NoFile]
  /\ definition = [c \in Channels |-> NoDefinition]
  /\ certlabl = [c \in Channels |-> Blank]

(* The administrator replaces the file at any time.                        *)
EditConfigFile ==
  /\ program = "amqsxlbl" /\ ~crashed
  /\ configFile' \in ConfigFiles \cup {NoFile}
  /\ UNCHANGED <<callVars, asRead, definition, certlabl>>

-----------------------------------------------------------------------------
(* readConfigFile.  Lines that are comments or have another form than      *)
(* "channel.name=label" or "cluster.name=label" are ignored.               *)

(* With channel names allowed to be as long as those of clusters.          *)
LongestAlike(prefix) == MQ_CLUSTER_NAME_LENGTH

LongestName(prefix) ==
  IF prefix = "channel" THEN MQ_CHANNEL_NAME_LENGTH ELSE MQ_CLUSTER_NAME_LENGTH

(* With any label.                                                         *)
IsEntryWithAnyLabel(line) ==
  /\ line.prefix \in {"channel", "cluster"}
  /\ line.equals
  /\ line.name.length \in 1..LongestName(line.prefix)

IsEntry(line) ==
  /\ line.prefix \in {"channel", "cluster"}
  /\ line.equals
  /\ line.name.length \in 1..LongestName(line.prefix)
  /\ line.label.length \in 1..MQ_CERT_LABEL_LENGTH

Entry(c, line) ==
  [kind |-> "entry", of |-> c, entryType |-> line.prefix, objectName |-> line.name,
   certificateLabel |-> line.label, pNextEntry |-> NULL]

(* A line is read into the list.  The end of the list is that of this      *)
(* reading: without one, an old list would be written to through a null    *)
(* pointer, as is the block when malloc fails.                             *)
AddLine(c, list, line) ==
  LET new == malloc(list.heap)
      grown == [list.heap EXCEPT ![new] = Entry(c, line)]
  IN
  IF ~IsEntry(line) \/ list.lost THEN list
  ELSE IF new = NULL \/ (list.head # NULL /\ list.current = NULL) THEN [list EXCEPT !.lost = TRUE]
  ELSE IF list.head = NULL THEN [list EXCEPT !.heap = grown, !.head = new, !.current = new]
  ELSE [list EXCEPT !.heap = [grown EXCEPT ![list.current].pNextEntry = new], !.current = new]

readConfigFile(c, head) ==
  LET list[n \in 0..Len(configFile)] ==
        IF n = 0 THEN [heap |-> heap, head |-> head, current |-> NULL, lost |-> FALSE]
        ELSE AddLine(c, list[n - 1], configFile[n])
  IN list[Len(configFile)]

(* ChlExit for MQXR_INIT.  MQ begins with an ExitUserArea of zeros; a      *)
(* channel that is started again may also find what it left there.         *)
LabelInitCall(c) ==
  /\ Called(c, "amqsxlbl", {"new", "ended"})
  /\ \E head \in {NULL, ExitUserArea[c]} :
       IF configFile = NoFile
       THEN /\ ExitUserArea' = [ExitUserArea EXCEPT ![c] = head]
            /\ Responds(c, "SUPPRESS_FUNCTION") /\ Becomes(c, "closing")
            /\ UNCHANGED <<heap, crashed>>
       ELSE LET list == readConfigFile(c, head) IN
            /\ heap' = list.heap
            /\ crashed' = list.lost
            /\ ExitUserArea' = [ExitUserArea EXCEPT ![c] = list.head]
            /\ Responds(c, "OK") /\ Becomes(c, "open")
  /\ asRead' = [asRead EXCEPT ![c] = configFile]
  /\ definition' = [definition EXCEPT ![c] = NoDefinition]
  /\ certlabl' = [certlabl EXCEPT ![c] = Blank]
  /\ UNCHANGED <<program, configFile>>

-----------------------------------------------------------------------------
(* The addresses that a walk along the list comes to, one after the other: *)
(* it ends at a null pointer, or at a block that is free.                  *)
pMapList(c) ==
  LET at[n \in 0..MaxBlock] ==
        IF n = 0 THEN ExitUserArea[c]
        ELSE IF at[n - 1] \in Live THEN heap[at[n - 1]].pNextEntry ELSE NULL
  IN at

Walked(c) == {pMapList(c)[n] : n \in 0..MaxBlock} \ {NULL}

(* evalMapList: the first entry of the list that matches the MQCD, of      *)
(* which a channel name is compared in the length of channel names.        *)
Matches(entry, cd) ==
  \/ entry.entryType = "channel" /\ entry.objectName.first = cd.ChannelName.first
  \/ entry.entryType = "cluster" /\ entry.objectName \in ToSet(cd.Clusters)

evalMapList(c, cd) ==
  LET at == pMapList(c)
      found == {n \in 0..MaxBlock : at[n] \in Live /\ Matches(heap[at[n]], cd)}
  IN IF found = {} THEN Blank ELSE heap[at[Min(found)]].certificateLabel

(* ChlExit for MQXR_AUTO_CLUSSDR, for the MQXR_AUTO_... of other types of  *)
(* channel, and for any other reason.                                      *)
AutoClusSdr(c) ==
  /\ Called(c, "amqsxlbl", {"open"})
  /\ \E cd \in Definitions :
       /\ definition' = [definition EXCEPT ![c] = cd]
       /\ IF cd.Version < MQCD_VERSION_11
          THEN /\ certlabl' = [certlabl EXCEPT ![c] = Blank]
               /\ Responds(c, "SUPPRESS_FUNCTION")
               /\ UNCHANGED crashed
          ELSE /\ certlabl' = [certlabl EXCEPT ![c] = evalMapList(c, cd)]
               /\ crashed' = ~(Walked(c) \subseteq Live)
               /\ Responds(c, "OK")
  /\ UNCHANGED <<program, phase, ExitUserArea, heap, configFile, asRead>>

AutoOther(c) ==
  /\ Called(c, "amqsxlbl", {"open"})
  /\ \E expected \in BOOLEAN : Responds(c, IF expected THEN "OK" ELSE "SUPPRESS_FUNCTION")
  /\ definition' = [definition EXCEPT ![c] = NoDefinition]
  /\ certlabl' = [certlabl EXCEPT ![c] = Blank]
  /\ UNCHANGED <<program, phase, ExitUserArea, heap, crashed, configFile, asRead>>

(* ChlExit for MQXR_TERM: freeMapList, which moves the head along the      *)
(* list.  And with the head left where it was.                             *)
FreeAndKeepHead(c) == 
  Frees(Walked(c)) /\ UNCHANGED ExitUserArea

freeMapList(c) ==
  /\ Frees(Walked(c))
  /\ ExitUserArea' = [ExitUserArea EXCEPT ![c] = NULL]

LabelTerm(c) ==
  /\ Called(c, "amqsxlbl", {"open", "closing"})
  /\ freeMapList(c)
  /\ Responds(c, "OK") /\ Becomes(c, "ended")
  /\ definition' = [definition EXCEPT ![c] = NoDefinition]
  /\ certlabl' = [certlabl EXCEPT ![c] = Blank]
  /\ UNCHANGED <<program, configFile, asRead>>

LabelCall(c) == LabelInitCall(c) \/ AutoClusSdr(c) \/ AutoOther(c) \/ LabelTerm(c)

LabelTypeOK ==
  /\ configFile \in ConfigFiles \cup {NoFile}
  /\ asRead \in [Channels -> ConfigFiles \cup {NoFile}]
  /\ definition \in [Channels -> Definitions \cup {NoDefinition}]
  /\ DOMAIN certlabl = Channels
  /\ \A c \in Channels : 0 <= certlabl[c].length /\ certlabl[c].length <= MQ_CERT_LABEL_LENGTH

-----------------------------------------------------------------------------
(* The label that the file promises to a channel: that of its first line   *)
(* with the name of the channel, or of one of its clusters, and a name and *)
(* a label of the lengths that MQ allows.                                  *)
Promises(line, cd) ==
  /\ line.equals /\ line.label.length \in 1..64
  /\ \/ line.prefix = "channel" /\ line.name = cd.ChannelName
     \/ line.prefix = "cluster" /\ \E i \in DOMAIN cd.Clusters : line.name = cd.Clusters[i]

Promised(file, cd) ==
  LET lines == {i \in DOMAIN file : Promises(file[i], cd)} IN
  IF lines = {} THEN Blank ELSE file[Min(lines)].label

-----------------------------------------------------------------------------
(* The invariant of the lists.                                             *)

(* The entries of the first n lines.                                       *)
EntriesIn(file, n) == {i \in 1..n : IsEntry(file[i])}

FirstOf(block, lines) == IF lines = {} THEN NULL ELSE block[Min(lines)]
Later(lines, i) == {j \in lines : j > i}

(* They are the list of channel c, in their order: that of line i is in    *)
(* block[i], and the channel has no other blocks.                          *)
ListInv(c, n, block) ==
  LET lines == EntriesIn(asRead[c], n) IN
  /\ \A i, j \in lines : block[i] = block[j] => i = j
  /\ BlocksOf(c) = {block[i] : i \in lines}
  /\ ExitUserArea[c] = FirstOf(block, lines)
  /\ \A i \in lines : 
       heap[block[i]] = [Entry(c, asRead[c][i]) EXCEPT !.pNextEntry = FirstOf(block, Later(lines, i))]

HasRead(c, n) == 
  \E block \in [EntriesIn(asRead[c], n) -> BlocksOf(c)] : ListInv(c, n, block)

LabelInv(c) ==
  IF phase[c] \in {"new", "ended"} THEN ExitUserArea[c] = NULL /\ BlocksOf(c) = {}
  ELSE \E n \in 0..Len(asRead[c]) : HasRead(c, n) /\ (n < Len(asRead[c]) => crashed)

(* Only a line for which there is no memory is not read.                   *)
LostInv ==
  crashed => 
    /\ Live = Blocks
    /\ \E c \in Channels : \E n \in 0..Len(asRead[c]) - 1 :
         phase[c] = "open" /\ HasRead(c, n) /\ IsEntry(asRead[c][n + 1])

LabelsInv == LostInv /\ \A c \in Channels : LabelInv(c)
=============================================================================
