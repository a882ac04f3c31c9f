----------------------------- MODULE OsmScanMC -----------------------------
(***************************************************************************)
(* Small files for OsmScan.  Sizes are in units of a length prefix: every  *)
(* whole frame takes a prefix, a header of 1 and a blob of 2.              *)
(***************************************************************************)
EXTENDS OsmScanProperties

FrameSize == 4

Tagged(tag, value) == [tag |-> tag, value |-> value, entries |-> <<>>]
Strings            == Tagged(1, 0)
Group(entries)     == [tag |-> 2, value |-> 0, entries |-> entries]
Node               == [kind |-> "node", size |-> 0]
Way                == [kind |-> "way", size |-> 0]
Relation           == [kind |-> "relation", size |-> 0]
Changeset          == [kind |-> "changeset", size |-> 0]
Dense(n)           == [kind |-> "dense", size |-> n]

Blob(type, corrupt, fields) ==
  [type |-> type, corrupt |-> corrupt, fields |-> fields]
HeaderBlob   == Blob("OSMHeader", FALSE, <<>>)
Data(fields) == Blob("OSMData", FALSE, fields)

WholeFile(blobs) ==
  [size   |-> FrameSize * Len(blobs),
   frames |-> [i \in DOMAIN blobs |->
     [start |-> FrameSize * (i - 1), header |-> 1, length |-> 2,
      type |-> blobs[i].type, corrupt |-> blobs[i].corrupt,
      fields |-> blobs[i].fields]]]

CutFile(blobs, bytes) == [WholeFile(blobs) EXCEPT !.size = @ - bytes]

Scaled(entries) ==
  Data(<<Strings, Group(entries), Tagged(17, 7), Tagged(19, 5), Tagged(20, 6)>>)
Plain(entries)  == Data(<<Strings, Group(entries)>>)
NoGroup         == Data(<<Strings>>)

(* One group to a block, the way writers in use lay blocks out; dense      *)
(* groups that do and do not fit a chunk; blocks that yield no row.        *)
WholeFiles ==
  {WholeFile(<<HeaderBlob, Scaled(<<Dense(3)>>), Plain(<<Way, Changeset, Relation>>),
               NoGroup>>),
   WholeFile(<<HeaderBlob, Scaled(<<Dense(1), Dense(3)>>), NoGroup,
               Plain(<<Dense(0), Node>>), Plain(<<Dense(2)>>)>>),
   WholeFile(<<HeaderBlob, Plain(<<Node>>), Scaled(<<Way, Way>>)>>),
   WholeFile(<<HeaderBlob>>)}

(* A blob that does not inflate, a blob of unknown type, a first blob that *)
(* is not the header, and files cut within the last prefix, header, blob.  *)
FaultyFiles ==
  {WholeFile(<<HeaderBlob, Plain(<<Node>>), Blob("OSMData", TRUE, <<>>),
               Plain(<<Dense(3)>>)>>),
   WholeFile(<<HeaderBlob, Plain(<<Node>>), Blob("Other", FALSE, <<>>),
               Plain(<<Way>>)>>),
   WholeFile(<<Plain(<<Node>>), Plain(<<Node>>)>>),
   WholeFile(<<HeaderBlob, Plain(<<Node, Dense(3)>>), Scaled(<<Way>>)>>)}
  \cup {CutFile(<<HeaderBlob, Plain(<<Dense(3)>>), Plain(<<Way>>)>>, n) : n \in 1..3}
  \cup {CutFile(<<HeaderBlob>>, n) : n \in 1..3}

AllFiles == WholeFiles \cup FaultyFiles

(* Blocks of two groups.                                                   *)
TwoGroupFiles ==
  {WholeFile(<<HeaderBlob, Data(<<Strings, Group(<<Dense(2)>>),
                            Group(<<Way, Way>>)>>), Plain(<<Node>>)>>)}

=============================================================================
