# eip712: a verification project

The repository is a signer for EIP-712 typed messages. A host (`feeder/feed_apdu.py`)
reads a JSON message and writes APDUs on the standard input of the signer
(`src_features/signMessageEIP712/`), which keeps the type definitions in a small
buffer, follows the position in the message, feeds Keccak contexts as the values
arrive, and prints two hashes: that of the domain and that of the message. It never
sees the whole message and answers nothing. Everything rests on host and signer
walking the same tree in the same order, and on a stack of hash contexts that the
code addresses from the end of the memory in use, without a check.

Paths of sources below are relative to `src/`; a bare file name is in
`src_features/signMessageEIP712/`.

## Inventory

| Component | State | Operations | What makes it correct |
|---|---|---|---|
| Byte framing, `entrypoint.c` `main()` | 260-byte buffer, `idx`, `state`, `payload_size` | read a byte, hand an APDU over, return | every complete APDU is handled once, in order, whole; never a byte outside the buffer |
| APDU dispatch, `handle_apdu()` | none | one handler per INS/P2 | an unknown APDU ends the program; the result of every handler is dropped |
| Struct definitions, `entrypoint.c`, `sol_typenames.c` | `structs_array`, the type-name tables, in the buffer | `set_struct_name`, `set_struct_field`, accessors | what the accessors read back is what was sent |
| Memory, `mem.c`, `mem_utils.c` | `mem_buffer`, `mem_idx` | `mem_alloc`, `mem_dealloc`, formatting a number | releases match allocations |
| Type hash, `type_hash.c` | pointers above the used memory, `global_sha3` | `type_hash` | the struct and the structs it refers to, each once, sorted |
| Path, `path.c` | root, depths, open arrays | set root, advance, update, open an array | the path, the arrays and the contexts are one picture of one position |
| Field hash, `field_hash.c`, `encode_field.c` | idle/waiting, bytes remaining, `global_sha3` | `field_hash` per packet | the encoding of the value goes into the context of its struct or array, once |
| Initialisation, `context.c` | - | `init_eip712_context` | the table of type names and the count of structs lie where the accessors look |
| Hash library, `lib/`, `wrap/` | Keccak contexts: state, gathered word, two indices | `cx_keccak_init`, `cx_hash` | a digest is Keccak-256 of what was absorbed, in whatever pieces |
| Feeder, `feeder/feed_apdu.py` | none | cut types apart, walk, encode, cut in packets | the types and the order the signer expects |
| Filtering and signing requests, feeder | paths, keys | APDUs of another firmware | not this signer's |
| Reference, `nodejs_test/` | - | `hashStruct` of `@metamask/eth-sig-util` | the expected hashes |

How they interact: `main()` calls `handle_apdu()`; a value APDU goes to `field_hash()`,
which asks `path_get_field()` for the field, feeds `global_sha3` (dynamic values) or
encodes (static ones) into memory, absorbs that into the context just below it and
calls `path_advance()`; that closes arrays and structs (finalising contexts, feeding
the one below), then `path_update()` enters structs (allocating contexts, calling
`type_hash()`, which uses the same memory and the same `global_sha3`). A name APDU
calls `path_set_root()`, an array APDU `path_new_array_depth()`, which puts a context
*under* the one on top. All of it is one thread; the program is hard for other
reasons: state spread over four modules that must agree (path, arrays, memory,
`field_hash`), failures that are dropped half way, fixed tables and a fixed memory,
byte-wide counters, and a second program (the host) that must infer the same position
without an answer. There is no concurrency inside the signer and nothing is
persisted; the stream can stop anywhere. The hazards are listed in `PROJECT.json`
with the line where each bites.

## Modules

| Module | Models |
|---|---|
| `Eip712Types` | the schema the definitions APDUs leave (accessors of `entrypoint.c`) and the dependency list of `type_hash.c` |
| `SolTypenames` | the memory byte by byte, and the table of type names at its beginning (`sol_typenames.c`) |
| `StructDefs` | `set_struct_name()`, `set_struct_field()` and every accessor of `entrypoint.c` over those bytes; the bytes the feeder sends for a type |
| `Definitions`, `Schema` | STRUCT DEF APDUs in any order, with full memory, wrapped counts, parts, late definitions; abstract: a list of structs that grows |
| `TypeText` | the reference `encodeType` (external library), from the types of the JSON message |
| `TypeEncoding` | `type_hash.c` over the bytes: the dependency walk, the sort, the text |
| `EncodingForDevice` | what `Device` takes `type_hash()` to be, next to what it does |
| `KeccakF`, `Sponge` | `lib/sha3.c` (permutation; buffering and padding) as `wrap/libcxng.c` calls it |
| `Keccak256` | Keccak-256 from its definition (external), bit positions instead of tables |
| `Transcripts` | hash contexts as the tokens they absorbed; a digest is that sequence in brackets, and a token says where `global_sha3` was finalised and fed on |
| `Memory` | `mem.c`, the chunks above the definitions, what `type_hash()` takes and leaves |
| `Path` | `path.c`, one step per iteration of its loops |
| `FieldHash` | `field_hash.c`, `encode_field.c` |
| `Device` | `handle_apdu()` over any sequence of STRUCT IMPL APDUs; the properties of the signer |
| `Feeder` | the APDUs `feed_apdu.py` sends for a message |
| `TypedData` | the reference `hashStruct` (external library), over the same tokens |
| `HashOracle` | abstract: prints the expected hashes, all of them, nothing else |
| `Session` | `Device` + `Feeder`: a domain and a message from end to end |
| `Framer`, `ApduQueue` | `main()` byte by byte; abstract: each APDU handled once, in order |
| `DeviceProofs` | theorems about `Device`: types, memory against contexts, what handlers address; where the path stands, the open arrays, what is released |
| `StackProofs` | theorems about `Device`: what the contexts absorbed and what is printed; the lemmas on item sequences |
| `DefinitionsFacts`, `DefinitionsProofs` | theorems about `Definitions`: what is stored and what is read back, byte by byte; the structs that are kept, the lookup, the refinement of `Schema` |
| `TypeEncodingProofs` | theorems about `TypeEncoding`: the pointers collected, the order of the types, the text that is hashed |
| `FramerProofs` | theorems about `Framer`: the buffer, whole frames, the refinement of `ApduQueue` |
| `SpongeProofs` | theorems about `Sponge`: pieces do not matter, the digest is Keccak-256 |
| `Recursion` | induction over numbers for a set; functions defined by recursion on a number exist and are determined |
| `MCDevice`, `MCSession`, `MCFramer`, `MCDefinitions`, `MCTypeEncoding`, `MCSponge` | instances for TLC |

`Device` EXTENDS `FieldHash`, `Path`, `Memory`, `Transcripts`, `Eip712Types`, in that
order of calls; `Session` adds `Feeder` and `TypedData` and instantiates `HashOracle`;
`Framer` instantiates `ApduQueue`. These see the definitions as a function `Structs` and a
type hash as one step. Below them, `StructDefs` EXTENDS `SolTypenames`, `Definitions`
(any APDUs; refines `Schema`) EXTENDS `StructDefs`, and `TypeEncoding` (the APDUs of a
schema, then `type_hash()`) EXTENDS `Definitions`. `TypeEncoding` instantiates `TypeText`, the
reference, and `EncodingForDevice` adds `Memory`, so that `AgreesWithDevice` compares `type_hash()`
over bytes with the step `Device` takes. `Sponge` EXTENDS `KeccakF` and `Keccak256`: it is what lets the other
modules take a hash context for the sequence of what it absorbed.

### How state and actions correspond to the code

* `mem_idx`, `depths`, `arrays`, `root`, `fh` are the C variables. A count and its
  table (`depth_count`, `depths[]`) are one sequence. `heap` is what the bytes above
  the definitions are used for: one record per context, plus a "leak" for pointers a
  failed `type_hash()` leaves.
* `ctl` is the program counter inside a handler. `path_advance()` and `path_update()`
  loop, so each iteration is an action (`NextElement`, `EndArray`, `LeaveArrays`,
  `NextMember`, `EndStruct`, `NoMember`; `UpdatePath`, `EnterStruct`,
  `EnterStructFails`, `PathUpdated`), and an APDU is read only when `ctl = "ready"`.
* The handlers of APDUs are `path_set_root`, `field_hash`, `path_new_array_depth` and
  `Unknown`. Each has the failure branches of its function: no memory, table full,
  unknown name, size that does not agree, value that cannot be encoded.
* `Stray`: the code follows a pointer to something else than it believes (a field past
  the last one, a context that is not there, a buffer that was not allocated). What
  a program does then is undefined; the model records which (`status`) and stops.
* `base`, `dropped` are history variables: how much of the memory belongs to messages
  abandoned by a new root, and whether a failure that changed state was reported to a
  caller that drops it. `digests` is what is printed.
* In `Device` the text of an encoded type is one token, `<<"type", struct,
  dependencies>>`: since the code sorts the dependencies and each comes once, the set
  determines the text. `TypeEncoding` shows both (`DependenciesInOrder`,
  `TextIsEncodeType`).
* In `SolTypenames` and above, `mem` is the buffer and an address an index in it. What a
  handler allocates and fills is a list of `Piece`s, one per `mem_alloc()`: those before
  the first that does not fit are stored, which is what the early returns of
  `set_struct_name()` and `set_struct_field()` amount to. A level of an array is stored as
  the four bytes of an enumeration, over what lies behind the one byte allocated.
* The accessors keep their names and take an address. The n-th element of a walk
  (`FieldPtr`, `StructPtr`, `LevelPtr`, `EntryPtr`) stands for the loop that steps through
  n - 1 of them. `ByteAt` is `data[data_idx]`, with the wrap of the index.
* `buf` keeps what earlier APDUs left behind the current one, for definitions that end
  before their fields do. `status = "stray"` ends a behaviour where the code stores through
  a null pointer, past the memory, or copies from past `buf`.
* A type of the JSON message is a record: the name, the number behind it or `NULL`, the
  sizes of its array levels - the three parts `get_array_levels()` and `get_typesize()` cut
  its text into. The reference puts the text together again, number included.
* `type_hash()` is cut where its loops are. In the walk, `frames` is the stack of the calls of
  `get_struct_dependencies()`: `SkipField` and `AddDependency` are an iteration,
  `DependenciesFound` and `DependenciesFull` its returns. `Compare` and `EndPass` are the two
  loops of `sort_dependencies()`; then one `EncodeStruct` per struct, and `FinishHash`. It is called when
  every definition was kept whole (`intact`): what is read of the others is the subject of
  `Definitions`.
* In `Sponge` a byte and a word are the sets of the positions of their ones, xor is the
  symmetric difference; `sha3_Update` is one step, as the program calls it.
* `Framer` does not name the payload: it delivers byte sequences. `Device` starts from
  parsed APDUs. The link is `DeliversFrames`: the handler sees whole APDUs, in order.

Assumptions, each named in its module: the schema is closed and its counts fit a byte
(`SchemaAssumption`) and the definitions are complete before the first value
(`DefsEnd`), where `Definitions` says what becomes of those that are not; the table of type
names, the path and the first count fit the memory (`StructDefsAssumption`), an index
reaches the payload and `buf` holds all it can reach; pointers and hashes have a size, and schemas are made of
the names and fields the feeder sends (`EncodingAssumption`); the message to hash is a sequence of
bytes, and no digest is the null pointer (`SpongeAssumption`); the tables of `sha3.c` hold what the
definition computes (`TablesAssumption`, which TLC evaluates on the real tables); the first packet of a value has its two length bytes (guard of
`field_hash`; the feeder always sends them); Keccak is free of collisions
(`Transcripts`); in `Session`, values agree with the schema. Initialisation succeeds.

## Runs

| Run | Question | Bounds |
|---|---|---|
| `framing` | does `main()` deliver the APDUs of the stream, whatever its bytes | every stream of up to 3 APDUs out of 6 headers (known ones, unknown INS, P2, P1) and payloads of 0 to 2 bytes, whole or cut; `BUF_SIZE` exactly fits the longest, as 260 does |
| `device_protocol` | do path, arrays, memory and digests agree, for any APDUs in any order | 5 structs (array of structs, two-level array, dynamic value, nesting deeper than the path, a message of one value), packets that begin, end or go on with a value, 7 APDUs; a long message needs 5, the short one 2, so that messages complete, are abandoned, and follow each other |
| `device_limits` | what happens when memory and tables are full | recursive type, empty struct, two-level arrays, room for 3 contexts, 2 depths, 2 arrays, 6 APDUs |
| `session` | does the signer print the reference hashes for what the feeder sends | 21 messages: structs in arrays in structs, arrays of 1 and 2 elements, 2-level arrays, texts of 0, 3 and 8 bytes with 5-byte packets (two of them for the length: one packet with room left, one full packet, two full packets) |
| `definitions` | do the accessors read back what was sent, and what does a definition that fails do to the others | 2 names, one the beginning of the other, 5 fields (sizes, custom, two levels, fixed levels, one too long), 2 parts of a field; up to 5 APDUs or context operations; 19 bytes of room behind the table, contexts of 6, counts that wrap at 3, an index that wraps at 16, a `buf` of 20 |
| `type_encoding` | is the text that is hashed the reference's, and does `type_hash()` do what `Device` assumes | every way 3 structs refer to each other, with 0 to 2 fields in one and 0 or 1 in the others (self-reference, cycles, diamonds, in an order other than the sorted one, names that begin alike), and a struct with every native type, fixed and dynamic levels; all of memory free, or 5, 9 or 11 bytes, with pointers of 4 and hashes of 6 |
| `sponge` | does `sha3.c` compute Keccak-256 however it is fed | one message of 152 bytes (a block is 136), pieces of 1, 7, 8, 20, 32, 127 and 136 bytes in every order, digest and re-initialisation at any point; the real permutation, on both sides |
| `nested_element`, `empty_array`, `negative_number`, `path_update`, `numbered_name` | findings, below | |

Sizes are scaled (contexts of 8 bytes, hashes and encodings of 3, a memory of 38, 60 or
200): only whether the next allocation fits matters, and each limit is met and passed
in `device_limits`, as those of the definitions are in `definitions`: five steps are enough
to fill a count, wrap it, run out of room in each piece of a definition and define
something after a context. Three bytes of encoding keep padding on both sides visible.
`MaxApdus` (in `MCDevice`) bounds the length of a behaviour; since every handler ends
in `ctl = "ready"` with the invariants holding, what a longer sequence adds is more of
the same nesting, which the proofs cover without bound. Deadlock is not checked where
the program may stop: at the end of the input, at the bound on APDUs, or after
`Stray`. In `session` it is checked: the only stop is the end of the script; in `sponge`,
too: a context can always be initialised again.

What the properties say:

* `StackMirrorsPath` - the central one. Between two APDUs, the context of the n-th
  struct on the path lies where its depth and the arrays around it put it, was started
  with that struct's type hash, and has absorbed one item per member before the
  current one. `ArraysOnPath`, `PathOnValue`, `Released` and `DigestIsWholeRoot` relate
  arrays to path, path to schema, memory to path and output to schema.
* `Balanced`, `NoStrayContext` - memory accounts for exactly the contexts of the path,
  hence no handler addresses anything else, until a failure has been ignored.
* `OnlyEmptyStructsStray` - the walk lets the index after the last field through; only a
  struct without fields gets a handler there, until a failure has been ignored.
* `HandlersReturn` - no handler loops for ever, with a recursive type included.
* `InStep` - the field the host means is the one the signer points to, at every APDU.
* `SignsReference` - refinement of `HashOracle`, safety and liveness.
* `Aligned`, `HandlesWholeFrames`, `DeliversFrames` - the framing; the last is the
  refinement of `ApduQueue`.
* `KeepsSchema` - refinement of `Schema`: as long as every definition fitted, was not cut,
  not too long for the index, not one too many and not late, what the accessors decode is
  the list of what was sent. `CompleteStructsKept` - after any of those, the structs before
  the last one defined in order still decode as they were sent. `LookupFindsFirst` -
  `get_structn()` among names that begin alike and names defined twice.
* `TextIsEncodeType` - the end-to-end one of the types: JSON types, feeder, bytes,
  accessors, dependencies, sort, numbers, against the reference. `DependenciesInOrder` -
  also for lists that memory cut short. `AgreesWithDevice` - result, dependencies kept and
  memory left by `type_hash()` are those of the step in `Memory`, on every amount of room,
  so that what is shown of `Device` rests on what `type_hash.c` does. `SortEnds` - the sort
  terminates, names equal or not.
* `PiecesDoNotMatter`, `DigestIsKeccak256` - a context is determined by the bytes it
  absorbed since its initialisation, and its digest is the Keccak-256 of them.

Fairness: weak fairness of the running handler (`WF_vars(Continue)`) - it is
sequential code that nothing preempts - and, in `Session` and `Framer`, of reading the
next APDU or byte: `main()` does nothing else than block on a standard input the host
has filled. Nothing is assumed of the host in `Device`. `TypeEncoding` has weak fairness of
`SortStep`, an iteration of a loop nothing preempts.

### Findings

Each is a run that expects a violation; `PROJECT.json` quotes the line it contradicts.

* `nested_element` (path.c:418): when the elements of an array begin with a struct, the
  array's context is inserted between that struct and the element; the hash is wrong.
* `empty_array` (path.c:478): an array of size 0 wraps to 255 elements, and the message
  never completes.
* `negative_number` (encode_field.c:61): a negative integer narrower than 256 bits is
  padded with zeroes instead of its sign; the hash is wrong.
* `path_update` (path.c:262): the sixteenth struct nested in the root is dropped silently; the path
  then points to a struct. (The instance has a table of 3.)

* `numbered_name` (feed_apdu.py:104): the digits at the end of a struct's name are taken for
  a size and not sent; the signer lists a dependency on nothing and follows it.

`session` uses messages without the first three of these shapes, and its properties hold there.

## Proofs

Everything in this section holds for every value of the constants under the named
assumptions, and every step of it is checked by TLAPS. The inductive invariants were
invariants of a run before they were proved, but for those that name the places of the definitions
in memory, or the solution of a recursion, which TLC cannot enumerate.

**Device: memory** (`DeviceProofs`). `TypeCorrect`, `ContextsBalanced`,
`OnlyContextsAddressed`, by `IInv == TypeOK /\ CurOK /\ Balanced /\ NoStrayContext`.
`NoStrayContext` alone is not inductive: that two contexts are on top of the memory
when an array closes follows from the array being on the path, which needs `Balanced`
(`ContextsThere`). `Balanced` needs the types, for the arithmetic of `mem_idx`
(`ReleaseOne`, `AllocateOne`). `CurOK` types the field pointer that `path_update()` keeps
between iterations. There is one lemma per action, `NextInv` joins them.

**Device: position** (`DeviceProofs`, second part). `PathStandsOnValue`, `ArraysStayOnPath`,
`MemoryReleased`, `PastTheEndOfEmptyOnly`: `PathOnValue`, `ArraysOnPath`, `Released`,
`OnlyEmptyStructsStray`, by `PathInv`. It has to speak of the places inside a handler:
each index of the path but the last is that of a struct the path has entered (`Stands`),
the i-th open array is of the field at which the levels counted along the path reach i
(`Spans`), and at each `ctl` a fact about the field at hand (`Sound`). That an array is
never left behind, for example, needs that `LeaveArrays` takes all those of a field that is
left, which needs the count of levels and not only that the arrays are sorted. `Walk` and
`LevelsUpTo` are recursive functions of the state; that they satisfy their equation in this
state and the next, and do not depend on more of the path than they walk, is proved with
`Recursion`.

**Device: contexts** (`StackProofs`). `StackMirrorsInPlace`: `StackMirrorsPath` holds as
long as each array of structs is opened with the path on a direct member of such a struct,
not within a struct that is its member (`InPlace`); `PlainStackMirrorsPath`: that is the case, whatever
the APDUs, in every schema where the structs that arrays are of hold no structs
(`PlainElements`; the schema of `device_protocol` is one). The condition is what the
finding `nested_element` violates; it is a fact about the schema, or the order of the calls,
and not about the contexts. `DigestIsOfWholeRoot` - `DigestIsWholeRoot` - has no such condition: the first
context of the path is never the one displaced. The invariant gives the place of every
context (`Place`: below it, those of the structs before and of the arrays around it) and how
many items it has (`Mirrors`), one more while a handler has fed it and not advanced yet
(`PendingAt`); `Carries` is the step of it, and counts items in sequences of tokens.

**Definitions** (`DefinitionsFacts`, `DefinitionsProofs`). `DefinitionsTypes`,
`CompleteStructsStay` (`CompleteStructsKept`), `LookupIsFirst` (`LookupFindsFirst`) and
`SchemaKept` - `Definitions` implements `Schema`, step by step - for every set of names and
fields of the JSON message, every size of the memory, of `buf`, of an index and of a count, and
every sequence of definitions, parts of them and contexts. None of the three is inductive: that
a struct is decoded as it was sent says nothing of the bytes a later step may overwrite. The
invariant `DefInv` says where the structs lie: at addresses that the accessors do not know of,
one behind the other, held byte by byte with their fields (`StructAt`), all but the last below
both the count that `current_struct_fields_array` points to and the end of the definitions
(`Kept`). As long as the definitions are whole the last struct is held too, the next byte free is
the one behind it, and the count of structs is their number. What a handler stores is compared
with what the host sent (`FieldArrives`, `StoredHolds`): the pieces of `FieldPieces`, cut from
`buf` at the positions its index reaches, join to the payload, where each level of an array is
stored as an enumeration over the bytes behind it and overwritten by the next piece. What is held is read back by the
accessors (`StructHeld`), type names by way of the table that `init_sol_typenames()` wrote;
`StructsFound` follows the structs one by one.

**Type hash** (`TypeEncodingProofs`). `EncodingTypes` (`EncodingTypeOK`) and `DependenciesSorted`
(`DependenciesInOrder`), for all types the host may define - that contain themselves, have the same
name, or refer to a struct that is not defined - and any memory left. `EncInv` takes `DefInv` from the
proof above until the host has sent everything, and then that names can be read (`Named`). The order is strict because
the list holds no pointer twice and every struct in it is found by its own name (`Listing`): of two
structs with one name the second is never found, so that two pointers with one name are one. During
a pass in which nothing was swapped, all that was compared ascends (`SortInv`).

`TextEncoded` is the end-to-end one: for all plain types (`Plain`: names differ, no native type is
named like a struct, every struct that is referred to is defined, and a type has a number where it
has to) the text that is hashed is that of the reference's `encodeType()` (`TextIsEncodeType`), at
whatever place of memory that leaves room. That the types are plain is the theorem's one hypothesis,
about the JSON message; the schemas of `type_encoding` satisfy it (`PlainSchemas`, which TLC
evaluates), and the finding `numbered_name` shows a type that does not. The invariant, `TextInv`,
has three parts. The accessors read of memory what the host was told to send (`ToldRead`), which
`MeansReads` takes from the proof of `Definitions`. The walk (`Walk`): what is listed is reached by
the root, and a field that is a struct is listed or still ahead of a call of
`get_struct_dependencies()` - so that when no call is left the list is closed and equal to the
least closed set the reference takes (`WalkEnds`). The texts hashed so far are those of their
structs (`Texts`, by `StructAlike`). No more pointers are listed than there are structs
(`ListShort`), which is why the room of `Roomy` suffices. At the end the list, strictly ascending
and of the same set, is the reference's: a set of names has one list of them in order (`OneOrder`).
The digits that `mem_alloc_and_format_uint()` writes are the decimals of the reference
(`DigitsAreDecimal`); that the recursion has a solution is from `Recursion`. (Reached sets are
least closed ones by definition, and the walk is followed step by step: no induction over data
was needed.)

**Framing** (`FramerProofs`). `FramerTypes` (no write outside the buffer),
`BufferAligned`, `WholeFrames` (an action property), for every stream, from
`TypeOK /\ Aligned`: the position of the buffer in the stream bounds `idx`, and
`idx + payload_size` equal to the length of the APDU is what the bound on the buffer needs.
`FramesInOrder`: `Framer` implements the safety part of `ApduQueue`, step by step:
what was handled, followed by the frames of the stream from where the buffer began, are the
frames of the stream (`Delivered`). `FramesFrom` is a recursion towards the end of the stream,
which exists and satisfies its equation (`FramesSolve`). `NothingLeftBehind`: when `main()`
stops at the end of the stream, it has handled all of them.

**Hash library** (`SpongeProofs`). `ContextTypes`, `OnlyBytesMatter`
(`PiecesDoNotMatter`) and `DigestsAreKeccak` (`DigestIsKeccak256`), for every message and
every way to cut it. A call of `sha3_Update()` - complete a word that was begun, mix whole
words, save the rest - leaves what feeding byte by byte leaves (`UpdateFeeds`), and feeding is
associative (`UpdateTwice`). Between two words the state is the one of the definition after the
whole blocks, with the bits of the padded message in as many lanes as words were mixed
(`Stage`); `sha3_Finalize()` puts in the rest of the block (`FinalizeAbsorbs`). The five steps
of a round, with their tables and temporaries, are the steps of the definition by its
coordinates (`SameRound`, `SamePermutation`). Of the constants in the tables, the
proof takes ground facts that TLC evaluates (`TablesAssumption`): that `keccakf_piln` is the cycle
of lanes, `keccakf_rotc` the offsets modulo 64 and `keccakf_rndc` the constants of the shift
register.

**Recursion.** The library's induction theorems take an operator as a parameter, which these
provers cannot instantiate. `Recursion` proves the principle for a *set* of numbers from the
well-foundedness of `<`, and, with the step as a parameter of the module, that a function
defined by recursion on a number exists, satisfies its equation and depends on its inputs only up
to its argument. That is how the walks of `Path`, the frames of a stream, the rounds of the permutation,
the blocks of a message and the loops of the accessors are reasoned about.

Model-checked only:

* liveness - `HandlersReturn`, `SortEnds`, the liveness in `SignsReference` and
  `DeliversFrames` - which the prover does not do;
* `InStep` and `SignsReference`: `Feeder` and `TypedData` walk a message with RECURSIVE operators,
  which the prover does not read;
* `AgreesWithDevice`: the list it compares comes from a nested recursive function
  (`get_struct_dependencies` of `Eip712Types`), and the property instantiates `Memory` with the
  schema as a parameter, which tlapm 1.4.5 does not read;
* that the host opens arrays as `InPlace` asks when no element begins with a struct: `session`
  shows it through the hashes, and `nested_element` what happens when one does.

The operators named "faulty variants" in the modules change one definition each the way
a bug would; they are not part of any specification. Each property of a passing run
fails when one of them takes the place of the definition it varies (`PROJECT.json`,
"mutants").

## Not modelled

What the program does after `Stray` or `"stray"`; the bytes of the path and of
`s_field_hashing` in memory (they are C structures, modelled as such); that
`path_new_array_depth()` reads its size from the APDU before when it has no payload; DEBUG
output and the text of messages; functions without a caller (`sha3_Init384()`,
`sha3_Init512()`, `sha3_HashBuffer()`, the copying allocators of `mem_utils.c`); filtering and
signing requests (other firmware); the interactive explorer `handle_json.js`. The text of a
type that contains itself is not compared with the reference's (a message of it needs an
empty array to end, which is a finding already); that its list is what `Device` assumes, and
that the sort ends, is checked.

## Plan

Done: framing, device, session; definitions, type text and sponge, each with its
reference; the proofs of `Device`, `Definitions`, `TypeEncoding`, `Framer` and `Sponge` above. Next:

1. `AgreesWithDevice` as a theorem, which asks for an instance of `Memory` without a parameter and
   for a proof that the nested recursion of `get_struct_dependencies` has a solution.
2. Composition of `Framer` and `Device` over bytes, with streams cut anywhere; today the
   link is that `DeliversFrames` hands `Device` whole APDUs in order.
3. Larger graphs of types in `type_encoding`, where four structs multiply the states.
