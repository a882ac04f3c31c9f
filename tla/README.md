# A verification project for duckdb_spatial

TLA+ models of the spatial extension of DuckDB, model-checked with TLC on small
instances, with theorems that TLAPS proves for every value of the constants.
Every definition is translated from the C++ under `src/spatial/`;
`PROJECT.json` maps each one to the lines it stands for. What belongs to DuckDB,
GDAL, GEOS or the C++ library is modelled from how the extension uses it, and
is marked external there.

Paths below are relative to `src/spatial/src/spatial/` unless they start
elsewhere.

## 1. The system

The extension adds to DuckDB a GEOMETRY type, readers and writers of spatial
files, and functions on geometries. DuckDB calls it through callbacks: a table
function is bound once, initialised once for the query and once for each
thread, and then called for a chunk at a time by several threads; an aggregate
is a set of callbacks over memory that DuckDB owns; a scalar function converts
a vector. Almost all of the state is therefore either shared by the threads
of one query behind a lock, or private to one thread between two calls.

| Component | State it keeps | Operations | What must hold |
|---|---|---|---|
| OSM reader `core/io/osm/st_read_osm.cpp` | file offset, number of the next blob, end flag, bytes read (shared, locked); block, parser position and decoding parameters of each thread | bind, InitGlobal, GetNextBlob, TryRead (a resumable parser), Execute, progress, batch index | every element of the file once, in order within a thread, decoded with its own block; batch indices owned; faults surface; the scan ends |
| GDAL reader `gdal/functions/st_read.cpp` | the Arrow stream and batch counter (shared, locked); batch and offset of each thread; names and filters fixed at bind | Bind, RenameColumns, InitGlobal with FilterToGdal, InitLocal, Scan | distinct columns; the filter means what the query says; the rows of the layer once and in order |
| Metadata `gdal/functions/st_read_meta.cpp`, `st_drivers.cpp`, `core/io/shapefile/read_shapefile_meta.cpp` | an index | bind, scan | each file and driver once |
| GDAL writer `gdal/functions/st_write.cpp` | dataset, layer, field definitions (shared, locked) | Bind, InitGlobal, Sink, Combine, Finalize | a feature per row, each value in its field; a failure is reported |
| GDAL file system `gdal/file_handler.cpp` | a DuckDB file handle for each open file; a prefix and a handler for each connection | Open, Seek, Tell, Read, Write, Eof, Flush, Stat, ReadDir | what GDAL is told of an item is true, or the COPY fails |
| Shapefile reader `core/io/shapefile/` | the next record (one thread); encoding, types and the number of records, fixed at bind | Bind with the deduplication of names, InitGlobal, Execute with the conversions (the spatial filter option is parsed and not used) | distinct columns; each record once, its shape beside its attributes; rings to polygons; texts decoded |
| Vertex arrays `core/geometry/vertex_vector.*` | a pointer, a count, a vertex type, whether the words are owned; words shared between arrays | Create, Copy, Reference, Deserialize, Append, Set, Resize, SetVertexType, MakeOwning | copy on write: an array is a value |
| Geometry model `core/geometry/geometry.*` | trees of vertex arrays | SetVertexType, visitors | the vertices of a tree have one vertex type |
| Serialization `core/geometry/geometry_factory.cpp`, `geometry_processor.hpp` | cursor over a blob | Serialize, Deserialize, sizes, bounding boxes, GeometryProcessor | round trip; a buffer is filled exactly; the box contains the geometry; a visitor may leave what it likes |
| WKB, WKT, GeoJSON | cursor, dimensions met so far | read, write | round trip; the dimensions are those of the whole |
| Envelope aggregate `core/functions/aggregate/st_envelope_agg.cpp` | a box for each state | Initialize, Operation, Combine, Finalize | the result contains every row |
| GEOS aggregates `geos/functions/aggregate.cpp` | a GEOS context and a heap object for each state | the same, ConstantOperation, Destroy | every row is merged; every object is freed once |
| GEOS scalar functions `geos/` | a context for each thread | one call for each row, between two conversions | the conversions keep the value |
| PROJ functions `proj/functions.cpp` | a context for each thread | ST_Transform | every vertex projected, in the order of axes asked for |
| Core scalar functions, casts `core/functions/` | list vectors with selections; none between rows | ST_Dump, ST_Collect, ST_MakeLine, ... for blobs and for list vectors | a row's result depends on its value alone; overloads agree |
| Geographiclib | none between rows | | |
| Optimizer rules `core/optimizer_rules.cpp` | a logical plan | rewrite of a join into a range join of boxes | no pair of rows is lost |
| Registration, types, macros, benchmark, vendored code | none | | |

How they interact. DuckDB's scheduler calls the readers, one call at a time for
each thread, in any interleaving; the threads of one scan interact only through
the global state of the scan. The readers hand WKB or parsed elements to the
geometry model, whose arrays live in an arena of the thread that is reset for
every chunk; the serialization turns geometries into blobs, which the
aggregates and functions read back *without copying*. Hence the copy-on-write
arrays. GDAL calls back into the file system handler for every file it opens
through DuckDB. GEOS and GDAL objects are on the C heap and are freed by hand or
by smart pointers.

What is hard: interleavings of the threads of a scan and of the states of an
aggregate; a parser that stops anywhere when a chunk is full; a failure of one
thread while others go on; results cut at a boundary (the end of a batch, of a
block, of a vector); memory shared between geometries; renaming of names against
names already renamed; unsigned arithmetic at zero. `PROJECT.json` lists each
under "hazards", at its line, with the properties that catch it.

## 2. The modules

Every component has a module with its state, actions and specification; the
properties are in that module or in one that extends it (`*Properties`); an `*MC`
module gives the constants their instances; `*Proofs` holds the theorems.
Definitions whose name starts with `Bug` are single mistakes a change to the
code could make, each beside the definition it would replace; they take no part
in the specifications, and record which mistake each property is there to catch.

**OsmScan, OsmDelivery, OsmScanProperties.** A file is a sequence of frames with
byte positions; a block is a sequence of protobuf fields. `GetNextBlob` is
split where the code can throw (`ReturnNull`, `ReturnBlob`, `ThrowBlob`): a throw
leaves the shared offset advanced by what had been read, and the lock is
released. `SetBlock`, `EnterGroup`, `ScanElement`, `ScanDenseNodes`, ... are the
states of `TryRead`, one action each, because the chunk may fill up between any
two of them; `ReturnChunk` is the call boundary. The protobuf
iteration is modelled by what `next(tag)` does: it skips forward to the tag, and
does not come back. `OsmDelivery` is the abstract promise: rows
are delivered, each at most once, and success means all of them.

**GdalRead** composes the stages of ST_Read, which hand their state on: `Bind`
names the columns (GdalColumnNames), `InitGlobal` spells the filters with the names
of the layer (GdalFilter) and opens the stream, which the threads scan (GdalScan).
Each stage has its own initial predicate and actions (`NamesInit`, `NamesStep`, ...), so
that it can be proved about alone. A query may also list what there is to read:

**MetaScan** is the scan of ST_Read_Meta, shapefile_meta and ST_Drivers. One call is one
action, since only one thread makes them; what is in a row is left out. What matters is
which entries are looked at, left out (files that cannot be opened, drivers for
rasters) or fatal (shapefiles that cannot be opened), and that an empty chunk ends the scan. `Only` is the loop
that keeps some entries and leaves out the others, given the set of those kept (`Shapes`, `Openable`).

**GdalColumnNames, ShapefileColumnNames.** The two renaming loops, one action for
each turn. A name is an abstract value with a lower-case form and a family of
suffixed names; the suffixed names may coincide with others, as in the
instances, where a column may be called what another one is renamed to.

**GdalFilter.** The filters of a query are trees, as DuckDB hands them over,
keyed by the place of a column among the columns read. `FilterToGdal` gives a
sequence of words; `Selects` is how OGR SQL reads it, in which AND binds tighter than
OR. The spatial filter and the "v<number>" that Bind gives to a column without a name
are left out. `Filters` are the filters there may be, closed under children, of the types
`FilterToGdal` spells (for others it throws, and the query ends); `Depth` and `MaxDepth` say that they
are trees of bounded depth, which DuckDB sees to (`max_expression_depth`). `Meets` and `FilterToGdal`
are recursive functions over them.

**GdalScan.** The threads take record batches from one Arrow stream
(`ParallelStateNext`, under DuckDB's lock, external) and cut them into vectors.
`Measure` and `Deliver` are separate because the conversion between them may throw.
The count of lines is left out: it reaches no column.

**GdalWrite.** A COPY from the options to `Finalize`. `Sink` is split into `Lock`, a
`WriteRow` for each row, `FailRow` where it throws, and `Unlock`: other threads may stand at the
lock between any two of them. A `Feature` holds in each field the *set* of values
that the columns leave there, so that a field set twice, or not at all, shows;
`origin` records which row each feature came from and takes no part in the
steps. `TakeChunk` lets other threads begin new chunks after one has failed, as many
as there are: DuckDB cancels them at a moment nobody can name. INTEGER, TIME and LIST
stand for the types of attributes: values that are set as they are, that are taken apart,
that are refused. Dates and the names of files and layers are left out.

**GdalVfs, GdalCopy.** `GdalVfs` is a file of DuckDB as GDAL sees it through
`DuckDBFileHandle`: `Flags` of Open, `Seek`, `Wrote` with what it tells GDAL (`ItemsWritten`), and
`Read`, which asks again until it has everything: `BeginRead`, a `ReadSome` for each turn of its loop,
`ItemsRead`. A write may write less than asked and either may throw, which GDAL
learns from the number of items alone. `GdalCopy` puts a COPY on top of it. The driver between the two is
external and the simplest that needs all the calls: it writes a header, appends each feature, and at
the close reads the header back and writes it anew with the number of features. `CreateFile`,
`CreateFeature` and `UpdateHeader` are the actions of GdalWrite together with the writing
they cause; where the driver is told of too few items it raises an error, which the handler of
`gdal/module.cpp` throws through GDAL. Bytes know whose they are.

**ShapefileRead** composes the stages of ST_ReadSHP, as GdalRead does: `Bind`
opens the files and types the columns (ShapefileScan), the names are made distinct
(ShapefileColumnNames), and `InitGlobal` opens the files again and `Execute`
converts the shapes and the cells batch after batch (ShapefileScan). What shapelib may hand over is
`ShapeRead` and `CellRead`.
`read.file` is what Bind opened and `read.now` what InitGlobal opens: a prepared
statement keeps its bind data, and the file may have been replaced. The
stage "undefined" is reached where `SHPReadObject` returns no object (a record that is
damaged, or beyond the end) and `Execute` looks at its type all the same
(`read_shapefile.cpp:322`). `AsDouble` rounds what is read through a double, to
`Mantissa` bits (`read_shapefile.cpp:377`): numbers are exact up to 2^`Mantissa`, 2^53 in the code, and
RowsAreRecords says that beyond it they are off by no more than half of their last bit. `Excess` bounds how many bits
more a number of the table may have; in the run the numbers go to 15, two bits more than their doubles have. Characters of one and two bytes stand for UTF-8.

**EnvelopeAggregate.** Each thread folds rows into its state, `Combine` folds the
states into a target, in any order; the state starts from uninitialised memory
(`Garbage`). What is read of a geometry is the box stored in the blob, rounded
outwards to single precision: `Down` and `Up` model the rounding, with a largest
float, on the multiples of `FloatStep`.

**GeosAggregate.** GEOS objects are taken from a finite heap. `Operation`,
`ConstantOperation`, `Combine`, `Finalize`, `Destroy` are the callbacks; a merge may
return NULL; the query may stop at any time (`Abort`), after which DuckDB destroys
every state. As union and intersection are idempotent, commutative and
associative, the content of an object is the set of geometries merged into it.

**VertexArray, VertexValues.** Memory is an array of words:
the words of a serialized blob, then the arena, which only grows. An array is a
header (start, count, dimensions, owning), exactly as in the code, and each
operation is the sequence of copies the code does, word by word where the order
matters (`Ascending`, `Descending`), since source and target overlap. A
reallocation may grow in place or move, as the arena may. `VertexValues` says what
a user of arrays expects: each one is a value of its own, whatever the others do.

**Geometry, SinglePrecision, GeometryProcessor, GeometrySerde.** A geometry is a tree:
a type, vertex arrays and items, each array with its own dimensions (`Geometry`). A blob is a sequence of
words of four bytes, of which a double takes a "low" and a "high" one, so that padding and alignment
show (`GeometrySerde`: `Serialize`, `Deserialize`, `BlobSize`, `BoundedBy`, `TryGetBox`).
`GeometryProcessor` is the visitor that most functions are written with: `Process` walks over
the words of a blob as the code does, with the parent and the level that it keeps, and shows the visitor as
many rings and items as it takes. `SinglePrecision` is the rounding of boxes, shared with the
envelope.

**WellKnownBinary, WellKnownText, GeoJson, GeosSerde** are the other forms of a geometry and the two ways
each: cells of WKB with their byte order and the flags of EWKB; the words of a text in the order of the
parser's calls, with the Z and M it has met; JSON documents with positions of two or
three numbers; GEOS geometries, with the conversion's own computation of sizes. The spelling of numbers is left out.

**ListVectors** has the list vectors of LINESTRING_2D and POLYGON_2D: entries with offset
and length, coordinates, a selection, a capacity; and the functions and casts that work on them.
**GeometryFunctions** has the functions on blobs.

**GeometryColumn** is a query: a column of geometries on which one function after another is
called, each with all its rows. A column has a form, and a conversion is an action like any
function. **GeometryValues** is what the functions promise, each in its own words and
not the code's: values with named ordinates that no conversion changes. `values` in
GeometryColumn is read from the column after every call, so that ValuesAsPromised is a refinement
and not an assumption. **GeometryProperties** says what holds of buffers,
boxes, visitors and overloads between the calls. These modules use recursive operators and have no proofs.

`UintRange` stands for 2^32 in VertexArray. `Exclusive(h)` limits writers: an array that owns its
words is changed only while no other one refers to them. The code has no reference
counts and leaves this to its callers, so that it is an assumption of the model.

## 3. The runs

| Run | Question | Instance | Result |
|---|---|---|---|
| osm_scan | is every row of a file delivered once, in order, rightly decoded, in chunks and batches DuckDB accepts; does a fault always surface; does the scan implement `OsmDelivery`, and end? | 3 threads, vectors of 2 rows, 4 whole files of up to 4 frames, 10 with corrupt, truncated, foreign blobs | holds |
| osm_groups | "it only outputs the raw OSM data" | blocks of two groups | violated |
| gdal_read | columns distinct without case and renamed only on collision; the pushed filter selects the same rows; rows once and in order, batches owned; every read ends; listings whole | up to 4 columns out of 6 names; 3 columns, filters on one or two; 3 threads, vectors of 2, 9 streams; listings of up to 5 entries | holds |
| gdal_filter_or | the pushed filter selects the same rows, with OR beside another filter | 3 columns | violated |
| shapefile_read | columns distinct if no attribute looks renamed; every row its record's shape and attributes; rings whole and in their polygon; texts decoded; every read ends | up to 4 attributes, 4 parts, 5 records; vectors of 2 rows, doubles of 2 bits; files replaced between bind and scan | holds |
| gdal_write | every value under its column's field; the features of a chunk together; success means every row, to the last byte of the file; every COPY ends and frees its lock | 3 threads, up to 3 chunks of up to 3 rows, 23 statements, half of them with something to reject; header and features of 2 bytes, any call may write or read less | holds |
| envelope_agg | every row covered, the box tight | 2 threads, 3 rows out of 4 geometries | holds |
| geos_agg | one owner for every object; nothing lost but what is known to be lost | 2 threads, 3 rows, failing merges, constant chunks | holds |
| geos_constant | "the union of a set of input geometries" | constant chunks | violated |
| vertex_array | owners disjoint, arrays are values | 2 arrays, 2 vertices, 4 operations, a blob with XYM vertices | holds |
| vertex_array_empty | "Make sure the geometry has unified vertex type" | empty arrays | violated |
| geometry_values | do values survive every sequence of conversions and functions; are buffers filled exactly, boxes wide enough, visitors free to leave, overloads of one mind, texts read back | 3 calls on 42 columns of up to 2 rows, all types, dimensions and two levels of nesting (without the `Faults` of section 3), or on 3 columns of GeoJSON | holds |

A run marked violated checks one sentence of the documentation, of a comment or
of a test against what the code does; the quotations and what the code does
instead are under "findings".

What the passing runs leave out on purpose, because the code does otherwise there:
blocks of an OSM file that declare an offset but no granularity (both offsets are
then ignored, `st_read_osm.cpp:315`); an OR filter beside another one, and constants
that DuckDB spells with a cast (`st_read.cpp:471`: GDAL refuses the clause, the scan
does not look, and nobody filters); attributes of a shapefile that already look
like another with a number (`[a_1, a, a]` becomes `[a_1, a, a_1]`); parts of a polygon
before its first clockwise one, which are dropped if two are clockwise
(`read_shapefile.cpp:257`); coordinates beyond
the range of a float, which the stored box does not contain (`geometry.hpp:39`). And
`ContentIsTheRowsHeld` does not count the rows of a GEOS aggregate that a failed
merge or a constant chunk made it forget: they are in `lost`.

In geometry_values, `Faults` names mistakes of the code that the run assumes away and that violate the property in
brackets as soon as they are put in: "moved_list", a cast to LINESTRING_2D of more coordinates than the list
had room for writes through pointers fetched before the list moved (`geometry_cast.cpp:105`; ValuesAsPromised and
BoxKeepsCandidates); "last_vertex", ST_RemoveRepeatedPoints with a tolerance puts the last vertex of every row
where that of the first row belongs (`st_removerepeatedpoints.cpp:256`; ValuesAsPromised); "level_point",
ST_Contains of a POLYGON_2D holds points outside that are level with its highest or lowest vertex
(`st_contains.cpp:91`; OverloadsAgree), so that POLYGON((1 1, 1 3, 4 1, 1 1)) contains POINT(-1 1), while
`docs/src/functions/scalar/st_contains.md:47` says "Returns true if geom1 contains geom2."; "flat_shell",
ST_ExteriorRing of a GEOMETRY copies its ring with `Get` and `Set` of `VertexXY` into a line of the polygon's dimensions,
made of zeros (`st_exteriorring.cpp:117`; ValuesAsPromised), so that the Z and M of every vertex become 0, while
`docs/docs.md:64` says "Returns the exterior ring (shell) of a polygon geometry." In gdal_write, "torn_item": a read that breaks
off inside an item reports it as whole (`file_handler.cpp:68`; FileIsComplete). In gdal_read, a chunk of
files none of which can be opened ends a listing (`st_read_meta.cpp:193`; `NoVectorLost`, ListingIsWhole).
The columns of geometry_values also have no empty ring, no point with only NaNs, WKB in little-endian order (doubles in
the other are not swapped, `wkb_reader.cpp:101`) and no NULL rows; polygons are closed with their holes
inside; an empty point in a MULTIPOINT is not written as text or GeoJSON, which nothing reads back; arrays without vertices
are not widened (the finding of vertex_array_empty: the guard `Widens`); one projection is used for all rows.

No property speaks of the order of the file across the threads of ST_ReadOSM: a chunk that
holds the end of one block and the head of a later one is labelled with the later one
(`st_read_osm.cpp:839`), and nothing in the repository promises that order.

Why the bounds are enough. Two threads show every race on one lock; the third
lets one fail or end while two go on. A vector of two rows is the least that can be
full, partly filled and empty; batches and dense groups of 0 to 3 rows end before,
at and after it. The files put each kind of block beside each other kind. Three
rows and two aggregate states give an empty state, a state of one and of several
rows, and both orders of combination. In VertexArray, four operations suffice to
make an array, refer to it, change it and look at the other; two vertices are the
least at which overlapping moves differ by direction. `MaxOperations`,
`MaxVertices` and `ArenaSize` bound the exploration: operations beyond them are not
taken, and `MaxOperations` is the only reason for which a behaviour stops.

In gdal_write the chunks are too few to fill a vector of DuckDB, which matters to
nothing in the code; two rows of a chunk and two other threads are what it takes for a
lock taken too late or freed too early to show, and no two cells of a statement are equal.

In shapefile_read, four parts are the least at which two polygons with holes can follow each
other, and batches of two end before, at and after the last record. What varies is the names,
the shapes, one column of attributes, or the file found by InitGlobal.

In gdal_read, either the names of the layer vary, or the request, or the stream, while the
other two are plain: the three stages only meet through the names and through
the order in which they run. A listing meets none of them.

In geometry_values, three calls make a geometry, convert it, and use what the conversion left; two rows are the least
at which an offset, a selection or a capacity is wrong for one and right for the other, and ST_Collect and ST_Dump go
from one to several (`MaxRows`, `MaxCalls`). A list has room for 8 coordinates before it grows. Ordinates are small
integers, no two of a vertex equal; the floats are the multiples of two up to 100, so that some
ordinates are between two floats. A point is placed on every side of the polygons. The run stops after its calls, hence
CHECK_DEADLOCK FALSE there.

Header and features of two bytes are the least that can be written in part.

Symmetry (of threads, rows, geometries, objects, arrays) is used in the runs of the two
aggregates and of VertexArray. They check invariants and, in `ArraysAreValues`, a refinement
of the form Init /\ [][Next]_v that treats all arrays alike; no liveness.

Fairness. `OsmScan` and `GdalScan` assume weak fairness of each thread's step:
DuckDB's scheduler keeps calling a table function until it returns no rows or
throws, and no step of these scans waits for another thread except for a lock
that is held for a bounded time. Binding and
InitGlobal run on one thread that nothing interrupts; their steps are weakly fair.
`GdalWrite` assumes the same of each thread in `Sink`. A thread that waits for the lock
has no strong fairness: the chunks are finitely many, so the lock is free for good once
the others are done. `ShapefileRead` has one thread, and weak fairness of its next step.

## 4. The proofs

| Theorem | Statement |
|---|---|
| OsmScanProofs!TypeCorrect | types, no chunk overfull, the parser never outside what it reads |
| OsmScanProofs!BatchesOwned | batch indices grow within a thread and are never shared |
| OsmDeliveryProofs!ClaimsFollow | until something fails, every frame is read and parsed under its own index |
| OsmDeliveryProofs!Progress | progress never passes 100% and ends there |
| OsmDeliveryProofs!FaultsShow | a scan that ends well met nothing it could not read |
| OsmDeliveryProofs!ShortChunks | only a thread that found no more blobs returns a short chunk |
| OsmDeliveryProofs!OnceInOrder | no row twice; the rows of a thread in the order of the file |
| OsmDeliveryProofs!OwnBlock | rows decoded with their own block's parameters, if blocks are plain |
| OsmDeliveryProofs!SuccessComplete | a scan that ends well has delivered every row, if blocks are plain |
| OsmDeliveryProofs!ScanDelivers | the scan takes the steps of `OsmDelivery`, if blocks are plain |
| OsmDeliveryProofs!ScanImplementsDelivery | and implements all of it (`DeliversEveryRowOnce`) if it terminates |
| GdalReadProofs!ColumnsDistinct | distinct names for every dataset |
| GdalReadProofs!RenamedOnlyIfTaken | a column is renamed only if an earlier one has its name |
| GdalReadProofs!GdalBatchesOwned | batch numbers never shared, in the order of the layer, never down within a thread |
| GdalReadProofs!GdalOrderPreserved | the chunks in the order of their numbers are the rows of the layer, each once |
| GdalReadProofs!PushdownKeepsRows | the clause pushed into GDAL selects the rows that the filters select, if it is `Unambiguous` |
| GdalReadProofs!ReadKeepsItsParts | the whole of ST_Read keeps the four invariants above |
| GdalReadProofs!ListingComplete | a listing that ends well has what can be listed, once and in order, if `NoVectorLost` |
| GdalReadProofs!EndedListingIsWhole | and so `ListingIsWhole` if it ends |
| GdalWriteProofs!LayerKeepsChunksTogether | the features of a chunk stand together in the layer, in order, each once |
| GdalWriteProofs!LayerHoldsTheRows | each feature holds its row, every value under its own field |
| GdalWriteProofs!CopyIsComplete | success means every row in the file, whole, if no read breaks off inside an item |
| EnvelopeAggregateProofs!EnvelopeTypeCorrect | a set state holds a box (not a property of a run: its invariant is what EveryRowCovered rests on) |
| EnvelopeAggregateProofs!EveryRowCovered | the state that holds a row covers it |
| EnvelopeAggregateProofs!EnvelopeIsTight | each side of the result is the side of some row's stored box; NULL only without one |
| GeosAggregateProofs!GeometriesOwnedOnce | no leak, double free or use after free |
| GeosAggregateProofs!MergeOfRowsHeld | a state is the merge of the rows it holds, the result that of all but the forgotten ones |
| ShapefileProofs!NamesDistinct | distinct names unless an attribute is named like a renamed column |
| ShapefileProofs!ScanIsComplete | a scan that ends well has given every record |
| ShapefileProofs!RecordsStayTogether | a row has the shape and the cells of one record, numbers exact or within half of their last bit |
| ShapefileProofs!RingsFindTheirPolygons | no vertex is lost or moves; each polygon has its outer ring, first |
| ShapefileProofs!TextsAreDecoded | texts are valid; a Latin-1 text spells the bytes of its cell |
| VertexArrayProofs!WordsOwnedOnce | arrays lie in the memory in use; an owner's words are its own |
| VertexArrayProofs!ArraysImplementValues | arrays that share words behave as values of their own (`ArraysAreValues`) |

All are proved from the named assumptions on the constants, which TLC evaluates
in the runs: vectors of at least one row, well-formed files and streams, a
threshold that is a multiple of the precision, distinct model values, at least one
thread where a query has to end, blobs whose vertices are among their words and that the memory has room for, rows with a cell for each column and
times up to 24:00:00, headers and features of at least one byte, shapes whose parts start one after the other
(`ReadsAssumption` of ShapefileRead), entries of listings that have a suffix and can be opened or not
(`ListingsAssumption`), filters that are finite trees about columns that are read
(`FiltersAssumption`, `ReadsAssumption` of GdalRead), names that tell what they were suffixed with (`SuffixAssumption`). `MantissaAssumption` says
of powers of two, up to the largest number of a table, what the prover, which does not have them, cannot know.
`EveryRowCovered` is about tables within the range of single precision, as its
property says. `OwnBlock`, `SuccessComplete`, `ScanDelivers` and `ScanImplementsDelivery` are about files whose blocks are *plain*
(`PlainBlock`): their fields in the order of their tags and each at most once, a string table before the group,
a latitude offset only with a granularity and a longitude offset only with both. All files
of osm_scan are; without it both are false, for the reasons given at `osm_groups` and in section 3.

The arguments:

- **OsmScan.** `TypeOK` is not inductive: `ScanDenseNodes` computes how many nodes
  are left, which is a number only if the parser stands on a dense group of a field
  that is a group. `ParserOK` says where the parser may stand in each state. For
  `BatchesAreOwned`, a thread's chunk carries the number of its block, and
  the numbers of two threads' blocks differ because `blob_index` is above every number
  handed out and grows under the lock. The two invariants are proved one action
  at a time, types first.
- **OsmScan, delivery.** Five invariants, each over the ones before it. `ScanInv`: as long as
  nothing failed the offset is where frame `blob_index` ends, and of every frame before it is known
  whether a thread holds it. `ShortInv`: a thread with a short chunk has found the file used up.
  `RowsInv`: what a thread has produced lies before the place at which its parser stands, in the order
  of the file, and no two threads are or were on one frame. `DecodeInv`: what the parser has
  met of the fields before its place is in `decode`. `CompleteInv`: every row of a frame that was
  claimed has been produced or lies behind the parser of the thread that holds the frame. The steps are first
  sorted by what they look like from outside the parser (`Moves`), so that most of an invariant is
  kept by seven kinds of step and not by sixteen actions.
- **OsmScan implements OsmDelivery.** What is pending are the rows of the file that were not handed over; what is counted
  are the places of rows in chunks (`RowsHanded`), a set that stays finite (`CountInv`). To count as
  many as leave the pending rows, the rows of a chunk must be different ones (`OnceAndInOrder`, `OutputIsNew`) and
  rows of the file: what was produced is an item of a data frame (`DataInv`, `RealInv`), with the
  parameters that frame declares (`DecodeInv`). The file's rows are finitely many (`FileFinite`). A chunk handed over is `Deliver`,
  every other step changes at most the outcome (`OthersDecide`); that nothing is pending when
  the outcome becomes "complete" is `FinishInv`, which is `SuccessMeansComplete` with rows instead of places. That the outcome
  is decided some time is not proved but the hypothesis `Termination` of `ScanImplementsDelivery`.
- **GdalColumnNames.** Distinctness is kept because the map holds the lower-case
  form of every name already passed, and a name is accepted only when it is not
  in the map; `MapHoldsPassed` is the strengthening. That nothing is renamed without need takes
  the converse (`MapHoldsOnlyPassed`) and that the names ahead are still the dataset's.
- **GdalScan.** The invariant is about the numbers *issued*, on chunks or still held by
  threads: all are at most the counter, their batches lie behind the stream, and
  they are in the order of the batches. Only `TakeBatch` issues one, above all
  others; every other step gives issues up or moves one from a thread to a chunk. For `OrderPreserved`
  the chunks of a batch follow each other without a gap (`Successive`), up to where the thread that
  holds the batch stands (`InStep`, `NoRowLost`).
- **GdalFilter.** The clause is proved about as a sequence of words. Its tests, wherever no OR is among the words, select the
  rows all of them hold of (`SelectsAll`); two clauses with OR between them select what one of them selects (`SelectsEither`),
  and so do many, by induction over `Join` (`JoinSelects`). By induction over the depth (`TreeInduction`), first the recursive functions
  are shown to be what their bodies say (`MeetsDefined`, `ClauseDefined`), then the words of a filter without OR to hold of a
  row exactly if it meets the filter (`ConjunctionHolds`), and the clause of a disjunction of such to select it (`DisjunctiveSelects`).
  An order that SetToSeqs gives has every filter (`OrderIsOnto`), and a name finds the place it was taken from
  if the names of the layer differ (`ValueOfPlace`). `Unambiguous` is about the request alone: no constant has a cast,
  and either no filter has an OR or there is one filter, whose ORs are outside its ANDs. All requests of gdal_read are;
  gdal_filter_or shows what the others come to.
- **MetaScan.** What is listed is always what `Only` keeps of the files before the place of the scan (`ListingInv`), and a call adds what
  it keeps of the next ones (`OnlyConcat`). The place is that of a vector or the end (`Multiple`), so a call that finds
  nothing to keep found nothing to look at (`OnlyAll`, `NoFilesLeft`), unless `NoVectorLost` is false. Files are kept for their suffix
  first and then for being readable, which is keeping them for both (`OnlyOnly`). `EndedListingIsWhole` has the end as its hypothesis.
- **GdalWrite.** That features stand together says nothing of threads, so it is far from
  inductive. Chunks belong to one thread each (`ChunksOwned`); a thread that waits for the
  lock has written nothing (`WaitersHaveWrittenNothing`); the one that holds it has written
  the rows before `row_idx`, the last of them at the end of the layer
  (`HolderIsAtTheEnd`), which is where the next one goes. For `FeaturesAreRows`, `Sink` and `InitGlobal`
  go over the columns apart. By induction over the columns, the fields made of the first n of them are as many as
  are counted there (`FieldsFollowColumns`), and no two share a field (`FieldsApart`); `Settled` says that the columns
  and fields a feature is written with are the ones it is looked at with later.
- **GdalCopy.** `RowsWritten`: while nothing has failed, a row of a chunk that was taken is in the layer or
  ahead of the thread that has the chunk. `FileFollows`: the file is the header and the features of
  the layer, byte by byte. A write of which all items were counted was whole (`AllItemsAllBytes`), and the buffer
  holds what the header holds, as far as it was read (`HeaderBuffered`), so what `UpdateHeader` writes is a header. That the reading
  is over (`WholeIs`) fails for an item that is read in part; hence the assumption that `Faults` has no `"torn_item"`.
- **ShapefileRead.** Names: as long as no attribute is named like a renamed column, a column has its own
  name or one with a number that the columns before it used up (`RenamedOnce`), and columns compared already differ
  (`Apart`). Scan: each row given is `Row` of a record that could be converted (`ScanInv`), so what remains is about single
  records. A sequence cut where its parts start is the same sequence when joined (`FlattenCut`), which is used for
  the parts and again for the polygons made of them. For texts, `SpelledBy` keeps, of the bytes decoded so far, where
  in the text the character of each one stands.
- **EnvelopeAggregate.** The box of a row is within what is stored for it (`Down` and
  `Up`, by arithmetic), the stored box within the state it was folded into, and
  merging only grows boxes; `is_set` guards the uninitialised coordinates. Each side of a state that
  is set is a side that some row brought (`SidesStored`).
- **GeosAggregate.** Every call replaces the object of one state by a fresh one and
  destroys the old (`Replace`), or clones; that keeps owners apart only if the state
  still has its context. `DestroyedWhenUnused` is the strengthening: a state is
  destroyed only when it has been combined or the query is over. With the owners apart, the content
  of one state is not changed through another (`ContentFollows`); rows pass from state to state and are in one
  at a time (`RowsApart`).
- **VertexArray.** `Fits(h, s)` says of the memory and array that an operation makes what must be true before array h
  may become that. It is proved of each helper once: what takes new memory (`FreshFits`), keeps its words
  (`SameWordsFit`), has none (`NoWordsFit`), or is reallocated (`ReallocatedFits`: the allocation that is extended
  or cut in place is the last one, so that no other array's words follow it). The actions are compositions of the helpers.
  The strengthening is that the words of the blob come first.
- **VertexArray implements VertexValues.** `MemoryInv` adds that the memory is whole and begins with the words of the
  blob. An operation on h is `Sound` if the array it makes fits and the words that others refer to (`Elsewhere`) are as they
  were; then the values of the others are unchanged, and what remains is to show that the vertices of h are those of the
  abstract operation. Copies and reallocations move words (`Moved`). The loops of `FlipVertices` and `SetVertexType`
  go over the vertices, up or down: `Written` says which vertices have their new words after each turn and that nothing else
  has changed, by induction over the vertices; no word is overwritten before it is read.

An attempt to prove that failed has changed a property: `ClaimsFollowTheFile` used to say of *failed* scans, too,
that a thread's block has the index it was claimed under. With five threads it is false: a thread whose claim
throws leaves the offset behind the length prefix, the next one reads there and throws in turn, and after as many of them as a
frame has prefixes the offset is that of a later frame again, which is then parsed under the index of another.
Nothing comes of it, since the query has failed by then. The property now speaks of scans in which nothing has failed.

The type invariants of the modules are all proved from, where they are needed, and only OsmScan's, which is hard to get
right, is run as a property of its own.

Model-checked only, and why. Liveness is out of the prover's reach: `Termination`, and that a
listing or the scan of `OsmDelivery` ends, which `EndedListingIsWhole` and `ScanImplementsDelivery` take as their hypothesis. The geometry modules use recursive operators, which the
prover does not take.

## 5. What is not modelled

Values computed from one row in real arithmetic: distances, centroids, geodesy, ST_QuadKey (lengths and areas are modelled as
integers, where they test how rings and rows are found). Formatting, tags of OSM elements. What GDAL, GEOS and PROJ
compute. Registration. `geometry_writer.hpp` and the layout benchmark, which no function
calls. The contexts of PROJ (a BOX_2D with projections that vary uses one shared by all threads, `proj/functions.cpp:132`) and of
GEOS. In `file_handler.cpp`, directories, Stat, Tell, Eof, Truncate and the prefixes of connections.

Vendored code. The generated `proj/proj_db.c`, one array with the bytes of a database, has 108 109 of the 127 955 lines of
the implementation, and no definition stands for any of them; of the hand-written lines about
two in five are mapped.

Cancellation by the user is modelled where it matters (Abort, Cancel), the loss of the process is not: nothing
here recovers from one.

Observed while modelling and not stated by a property: ST_Centroid of a POLYGON_2D subtracts the signed areas of holes
(`st_centroid.cpp:147`) and ignores the selection (`st_centroid.cpp:101`); ST_Contains answers differently for points on an edge when
a ring is turned or starts elsewhere; the blob of a GEOS geometry with an empty polygon is longer than what is written to it, and
its ranges of Z and M are wrong (`geos_wrappers.cpp:419`); the reader of lists from WKB does not look at NULL rows.

## 6. The plan

1. A composition of a reader with the vertex arrays and the arena that is reset for each chunk: no
   geometry outlives its words.
2. The contexts of PROJ across threads; projections that vary from row to row.
3. WKB in big-endian order; NULL rows in the functions on lists.
