# A verification development of package canonical

Package `canonical` produces every octet that the SmartBFT-based key-value system hashes or signs.
It has no state, no goroutine and no storage: ten structures, a `Marshal` and an `Unmarshal`
function for each, three Merkle node hashes. What can go wrong is not in one call but between
calls: between an encoder and a decoder, a signer and a verifier, this release and the next, the Go
implementation and the Python one. The modules here put those calls into processes that exchange
octets, sign them and count them, and ask what one side may conclude from what the other did.
Beside the package stand the tools that keep it so: a reader of the octets in another language, an
analyzer of the code that hashes, and the gates that run them. They are modelled too, with the
edits, damaged octets and failing tools that they meet.

## 1. Inventory

| Part | Source | State | Operations | Module |
|---|---|---|---|---|
| encoding layer | `asn1.go` | none | `marshal`, `unmarshal` | `Asn1` |
| structures | `header.go`, `proposal.go`, `signatures.go`, `signed.go`, `request.go`, `attest.go`, `commitcert.go`, `genesis.go`, `errors.go` | none | `MarshalX`, `UnmarshalX`, `checkX`, `ValidPurpose`, `spiffeIDV1` | `Structures` |
| callers of the package | `vectors_test.go` and the tests | the octets they hold | marshal, send, respell, unmarshal, relay | `Exchange` |
| signing envelope | `signed.go`, `attest.go`, `commitcert.go` | signatures made | sign, carry, verify, count | `Statements`, `Envelope` |
| Python byte reader and encoder | `ci/verify_vectors.py` | offset, calls under way: where each began, its limit, the items it has | `parse_der`, `_read_length`, `_read_integer`, `_read_value`, `encode_value` | `ByteReader` |
| Python decoder | `ci/verify_vectors.py` | `CHECKED` counter | `decode_struct`, `validate`, `encode_struct`, `derived_forgeries`, `merkle_hash`, `ed25519_verify`, `check_vector`, `main` | `Verifier`, `Exchange`, `Merkle`, `Gates` (partly) |
| Merkle hashing | `merkle.go` | none | `LeafHash`, `InternalHash`, `EmptyHash` | `Merkle` |
| determinism analyzer | `lint/determinism/analyzer.go` | set of allowed lines | `run`, `checkMapRange`, `checkMarshal`, `allowed` | `Determinism` |
| gates | `ci/negative-gate.sh`, `ci/verify-gates.sh`, `.github/workflows/ci.yml` | scratch module, scratch annex, `rc`, `out` | plant a violation, run a tool, compare exit code and output | `Gates` |
| annex | `testdata/vectors.json` | golden octets | read by the Go tests and by the Python decoder | `Gates` (which vectors it holds; not their octets) |
| ConsensusTime policy | `WIRE-SPEC.md` 6 | none here | none here | not modelled |

How the parts interact. The structures call the encoding layer; callers call the structures; the
envelope is a structure whose payload is another structure's octets; the Python decoder makes the
same decisions from the specification's words; tests, decoder and gates share the annex. Nothing
calls back. The analyzer and the gates read the package's source, not its octets; the negative gate
runs the analyzer, the linter and the Python decoder over faults it has planted itself.

What is hard. Octets arrive in any order, twice, or never, and in spellings nobody emitted; a
reader may relay what it accepted; a node of a later release sends structures with more fields; a
signature travels without the envelope it was made over, next to a payload, purpose or signer that
whoever relays it chose; two implementations decide separately. There is no concurrency inside a
call, no crash to recover from and no timeout. A directive outlives the edit it was written for. A
tool that fails for a reason of its own looks, to a script, much like one that has found something.

What makes each part correct:

- encoding layer: one value has one accepted spelling, and the accepted spelling is the emitted one;
- structures: encode and decode make the same checks; order and uniqueness of entries give a set
  one spelling and let entries be counted; the derived SPIFFE ID names one node of one cluster;
- callers: a relay never changes octets; a later release's octets are never half-read;
- envelope: a verified signature means that the key's holder made that statement, under that
  purpose, in that cluster; a quorum of entries is a quorum of signers;
- Python byte reader: it ends, takes nothing from outside a container, and reads each value from
  its one encoding; Python decoder: it accepts what the Go decoder accepts, no more and no less;
- Merkle: a digest is of one node, and a node has one digest in both implementations;
- analyzer: no banned call escapes, no directive acts beyond its lines, whatever was edited before;
- gates: a green run means that each rule fired for its own fault, in its own scope.

## 2. Modules

### Asn1

An octet string is the TLV tree it spells and the octets after it (`[tree, rest]`). DER's minimal
tags, lengths and integers make the spelling of a tree unique; octets that spell no tree are a node
with the tag `"bad"` where the reader meets them. A Go struct type is a schema: a sequence of named
fields, `int`, `oct` or `list` of a flat schema, which is what the type profile allows and the
structures use. `encoding/asn1` is not under `src/`; it is modelled by what `asn1.go` relies on and
guards against: an element of another type or a missing one is an error, a surplus element of any
SEQUENCE is dropped unread, every element of a SEQUENCE OF must parse, an INTEGER must fit int64.
`unmarshal` is `asn1.go`: parse, refuse octets left over, re-encode and compare. `nil` and empty
slices are one value (`doc.go:67`), as they are on the wire.

### Structures

Field lists, checks and exported functions, one definition for each in the source, with the errors
of `errors.go` in the order the code returns them. A check is `FirstError` of its early returns; a
loop with early returns is `LoopError`. `header.go` writes its two checks out, so they are two
definitions. Widths (32, 64, 16) are constants: nothing depends on their size, only on being
tested. `Decimal` is a recursive function, so that proofs can use the module.

### Verifier

`ci/verify_vectors.py` as a second set of decisions over the same trees: it counts the elements of
each SEQUENCE instead of re-encoding, puts no width on an INTEGER, and writes the constraints again.
Both implementations read the field lists of `Structures`: those of the Go types and of `SCHEMAS`
were compared by eye and are the same, so `Agreement` is about decoding and constraints. BOOLEAN,
which the profile allows and no structure uses, is an octet string that spells no tree. Two ways in
which its decoding can fail are not in a tree, so they are constants of the module: a wire longer
than `MAX_LENGTH_OCTETS` octets can state (`Length`, `PythonCeiling`; WIRE-SPEC 2.4.2), and octets whose decoding raises
another exception than `SpecError` (`Crashes`). Only `_check_cert_msg` tells the two apart: it takes a
message that raises `SpecError` for opaque, and `RecursionError`, for a message nested deeper than
Python's calls go, or `ValueError`, for a Version of more digits than Python writes, refuses the
certificate.

### Exchange, MCExchange

State: the kind of structure followed, the set of wires that exist (`net`), the histories `emitted`
and `newer`, and what readers saw (`accepted`, `refused`). The net never loses a wire, and any
reader may read any wire at any time: reordering, duplication and delay are in the model, loss is a
wire that is not read. Actions: `Emit` (Marshal), `EmitForeign` (`encode_struct`, which checks
nothing), `EmitNewer` (a later release: Version 2, maybe a field after the others), `Respell` (the
spellings that `TestVectorsAreNotMalleable`, `TestVectorRules` and `derived_forgeries` derive: an
octet after the wire, a surplus element in any SEQUENCE at any depth, the next Version, and these
repeated), `Accept`, `Refuse` (Unmarshal) and `Relay` (Marshal of an accepted value). A reader's
`Read` is Unmarshal under the ceiling that `encoding/asn1` has on lengths (`GoCeiling`); Marshal has
none.

### Statements, Envelope, MCEnvelope

`Statements` says what signatures are for, with no encoding in it: holders of keys make statements,
each in one cluster and under one purpose; a verifier believes nothing that was not said; a decision
rests on enough different consenters' statements. `Envelope` is how the code does it: `Sign` signs
`MarshalSignedV1` of the statement; `Believe` decodes a `SignedBlobV1` filled in from any existing
signature, or none, and any payload and purpose, rebuilds the envelope from the verifier's own
genesis digest and verifies; `Decide` does so for every entry of a `CommitCertificateV1` and counts.
Ed25519 is modelled by what it promises: a signature verifies for its key and message only. A
machine has one key, in whatever cluster it serves, so only the envelope tells its statements in two
clusters apart. `Envelope` is shown to implement `Statements` under the identity mapping of `said`,
`believed` and `decided`. What a client does with a certificate is not in this repository; it is
modelled from WIRE-SPEC 3.13.1, 3.13.3 and `_check_cert_msg`, and marked external in the map.

### NodeNames, Merkle, MCMerkle

`NodeNames` is the promise: a digest is a name, given once, to one node. In `Merkle` callers hash
nodes of any tree, in Go (`LeafHash`, `InternalHash`, `EmptyHash`) and in Python (`merkle_hash`, which
takes annex entries with depths and children of any width and refuses those that do not fit). The
two layouts are two definitions. SHA-256 is a table that gives a new preimage a digest not given
before; whether two nodes share a preimage is the code's doing. Go's types are the sets the callers'
arguments come from: a depth is a `uint8`, a child 32 octets.

### Codec, ByteReader, MCByteReader

`Codec` is what a reader owes its caller: one answer, a value whose encoding the input is, or a
refusal of what is no value's encoding. `ByteReader` is `parse_der`: an offset and a stack with the
start, end and items of each SEQUENCE not yet closed stand for Python's recursion (`OpenSequence`,
`ReadOne`, `CloseSequence`, `Raise`, `Return`); `_read_length` and `_read_integer` are operators over
octets, as is `encode_value`. It implements `Codec` with `encode_value` as the encoding, which is what
lets the other modules take octets for the tree they spell. The size of an octet is a constant.
`MaxDepth` is Python's limit on calls one in another: a SEQUENCE too deep ends in `RecursionError`,
which is a refusal (`Raise`). `encode_value` is defined for the values that can be read within that
limit, by a recursive function on the depth; that the encoder has such a limit too is not modelled.

### Determinism, MCDeterminism

A package is its files, lines and imports; a line has at most one call or range statement, with
what the type checker knows of it, and at most one comment. Actions edit it: insert and delete a
line, change a file's imports, answer a diagnostic with a directive above or beside it
(`AnswerAbove`, `AnswerInline`, the two forms of the analyzer's test data). `run`, `checkMarshal`,
`checkMapRange`, `allowed`, `suppressed`, `packageHashes` and `calleeFunc` are the analyzer's
functions over the package as it stands. A call has the object its name resolves to and the
function that in fact runs; the two differ for a function held in a variable and for a method called
through an interface, whose name resolves to the interface's method.

### Gates

`verify-gates.sh` followed by `negative-gate.sh`, its last step, as one sequence of steps under
`set -e`. What is wrong with the world is chosen at the start, up to `MaxWrong` things at once:
faults in the repository, rules that are dead or fire outside their scope, a `-detpath` that is
ignored, vectors that fail a check or are missing from the annex, git missing. The linter has two
sets of banned imports, because the repository is linted with `.golangci.yml` and the planted faults
with the template: a rule of the one may be dead when the other's is alive. The analyzer's rules are
one program in both places, run with another `-detpath`. The annex checker goes through the vectors
in their order, makes the eight checks of `check_vector` on each, then the three of `main` over all of
them, and reports the first that fails. Any tool may also fail for a reason of its own at any run,
with the exit codes it has for that and any part of its findings printed; `failed` keeps which did. A
command that is the condition of an `if` (git in the `go.work` step, the `grep` of the two scope
checks) says no when it fails, for good or this once (`Unanswered`); every other ends the script
(`Abort`). `FormatStep` and `DiffStep` are the formatter that repairs the tree and the diff that
tells. The module needs no MC module: its one constant is the bound.

### Asn1Proofs, StructuresProofs, ExchangeProofs, EnvelopeProofs, MerkleProofs, ByteReaderProofs, DeterminismProofs, GatesProofs

The theorems of section 5.

## 3. Runs

| Run | Bounds | What it shows |
|---|---|---|
| `exchange` | 2 wires, 10 kinds, each with the values listed in `MCExchange`; int64 is -2 .. 12; widths are 1; Go reads lengths up to 100 and Python up to 101 | all of `Exchange`'s properties below |
| `envelope_blobs` | 2 signatures; 2 nodes, 1 client, 2 clusters and one with a digest of the wrong width; 6 payloads | `TypeOK`, `BelievedWasSaid` |
| `envelope_votes` | 2 signatures, certificates of up to 2 entries, threshold 2, 2 nodes, 2 clusters, 3 payloads | `DecidedByQuorum`, `PromiseKept` |
| `merkle` | 2 preimages; 2 trees, depths 0 .. 2 around a limit of 1, 5 keys and values, 4 children of 1 to 3 octets | `OneNodePerDigest`, `OneDigestPerNode`, `NamingKept` |
| `byte_reader` | octets of four bits: all strings of up to 4 octets from 12, and encodings at each limit with one octet changed, left out or put in, or with a padded length | `InsideContainers`, `Terminates`, `AnswerKept` |
| `byte_reader_octets` | octets of eight bits, the code's tags and `MAX_LENGTH_OCTETS`; lengths 127, 128, 255, 256; INTEGERs at the sign limits | `AnswerKept` |
| `determinism` | 2 files, 3 lines in all, 13 kinds of line, 3 patterns for `-detpath` | `ReportIsExact`, `ReasonsAreLocal`, `OneReasonAnswersOne` |
| `gates` | 3 things wrong at once, besides tools that fail | `GreenMeansClean`, `GreenMeansFired`, `GreenMeansVerdicts`, `HealthyEndsGreen` |
| `exchange_newer` | as `exchange`, one wire, Headers | `NewerIsRefusedByVersion` does not hold |
| `exchange_wide` | as `exchange`, one wire, Headers | `SameInputs` does not hold |
| `determinism_values` | as `determinism`, calls through a variable | `MethodValuesFollowed` does not hold |
| `determinism_stale` | as `determinism`, banned calls with and without a directive beside them | `JustificationNotSkipped` does not hold |

Properties of `Exchange`:

- `AcceptedIsEmission`: an accepted wire is what Marshal returns for the accepted value (`doc.go:58`);
  so every accepted value can be passed on, under its own digest;
- `EmissionIsAccepted`: what Marshal returned, relays included, no reader refuses, unless it is
  longer than `encoding/asn1` reads;
- `OneSpelling`: two accepted wires with one meaning, memberships and certificates taken as the sets
  they are, are one wire;
- `EntriesAreDistinct`: no signer and no node counts twice;
- `IdentityNamesOneNode`: over all memberships read, one SPIFFE ID is one node of one trust domain;
- `NewerIsRefused`: nothing a later release emitted is accepted;
- `Agreement`: Go and Python accept the same wires, but for the rules that one side alone has. Go
  alone has a width for INTEGERs. Python alone looks into the messages of a certificate: it refuses
  one that names another proposal, as the documents have it, and one it cannot decode without
  another exception than `SpecError`, which they have not. Each has a ceiling on lengths of its own.

Properties of `Envelope`:

- `TypeOK`: statements are typed, and what was signed is a wire `UnmarshalSignedV1` accepts;
- `BelievedWasSaid`: believed statements were made by that key's holder, there, under that purpose;
- `DecidedByQuorum`: a decision is backed by Threshold consenters' statements about that proposal in
  that cluster;
- `PromiseKept`: the refinement of `Statements`.

Properties of `Merkle`:

- `OneNodePerDigest`: no leaf, inner node or empty subtree passes for another, of another tree or
  depth, or with the same octets split elsewhere;
- `OneDigestPerNode`: Go and Python give a node one digest;
- `NamingKept`: the refinement of `NodeNames`; only nodes that fit the layout are ever named.

Properties of `ByteReader`:

- `InsideContainers`: what a SEQUENCE holds ends where its length says, at any depth;
- `Terminates`: every read ends;
- `AnswerKept`: the refinement of `Codec`; a value is read from its one encoding, and every
  encoding is read.

Properties of `Determinism`:

- `ReportIsExact`: after any edits, what is reported is, in a package that hashes, the calls that name
  the banned function they run, and the keyed ranges over maps in the core, without a reason beside
  them. It says nothing is missed of those calls only: one through a variable, or through an
  interface that holds a `proto.MarshalOptions`, runs a banned function and is not reported;
- `ReasonsAreLocal`: an edit of one file changes no diagnostic of another;
- `OneReasonAnswersOne`: a directive put above a diagnostic answers that one; the lines that move
  down keep their diagnostics and their answers.

Properties of `Gates`:

- `GreenMeansClean`: a green run means a repository with nothing wrong, whatever is wrong with the
  tools, apart from three things that the gates cannot see, which the property names. A rule that no
  fault is planted for lets its own fault by when it is dead: the imports of `.golangci.yml` (it is
  the template's that are tried), `merkle`, `coverage` and `binding` of the annex checker, and its
  checks of a vector but `fields` and `signature`. A `-detpath='.'` that is ignored lets ranges over
  maps by, since the negative gate passes what is the default. A tracked `go.work` passes a git that
  fails at that step and no other;
- `GreenMeansFired`: every rule tried is alive, the scoped ones keep to the core, and the vectors that
  are changed are in the annex. The scope of `marshal` is not tried: the control package feeds no
  hash;
- `GreenMeansVerdicts`: in a green run no failure of the linter passed for an answer, nor any failure
  of a tool over the control package; go vet and the annex checker, whose exit code 1 is that of
  findings too, may have failed only with all that the gate looks for found and printed before;
- `HealthyEndsGreen`: with nothing wrong and no tool failing, the scripts end green.

Why the bounds are enough. A property of `Exchange` relates at most two accepted wires, or one wire
and the histories; with two on the net, a wire may be an emission, its respelling, a respelling of a
respelling by dropping the first, or two producers' wires side by side. The values of each kind
stand on both sides of each bound a check draws (widths 0, 1, 2 around 1; counts around MaxNodes;
-1, 0, 1; the purposes 0, 1, 4, 5; a payload that takes a wire to Go's ceiling and one more, to
Python's), with lists out of order, repeated and at fault in their second
element only. `MaxInt` is 12 and one foreign value is 13, as 2^63 would be. The trust domains `a`
and `a1` with the nodes 11 and 1 are those that a derivation without its separator would confuse.
In `Envelope` a wrong belief takes one signature and one place to move it to; a wrong count takes two
entries. A property of `Merkle` relates two calls. In `MCMerkle` an octet is a word and a depth, so
that a prefix, a tree, a depth, a length and a key's octet may all be equal, and children of one and
three octets join to what two of two octets join to. With octets of four bits the short form of a
length ends at 7 and one octet of length at 15, so that inputs of up to twenty octets cross every
limit of the code that 128 and 256 are for octets of eight; `byte_reader_octets` repeats the limits
themselves. A diagnostic in `Determinism` depends on its line, on the one before and on the file's
imports: three lines are those with one more to move. In `Gates` a false green takes one fault and
a gate that misses it, and a third wrong thing may hide either; one vector stands for all that the
negative gate leaves alone, and the annex holds that one at least. All these properties but
the two that are liveness (`Terminates`, `HealthyEndsGreen`) are also proved, without these bounds.

`ByteReader` and `Gates` end, and their runs do not check for deadlock; all other passing runs do:
there is always a wire to emit or read, a statement that may be made again, a node to hash, a line
to edit.

Fairness is assumed where one process runs by itself. `parse_der` is called and runs, and waits for
nobody: `WF_vars(Next)` in `ByteReader` says that it takes its next step, and `Terminates` that the
steps come to an end, though a SEQUENCE of empty elements, a length of zero or an offset that stood
still could have kept it going. A script does not stop between two commands, and a tool returns:
`WF_vars(Next)` in `Gates`. A tool that hangs is not in the model; CI's time limit is not in the
scripts. Nothing in package `canonical` must eventually happen (a reader may never read), and no
fairness is assumed elsewhere.

## 4. Where code and documents differ

- `exchange_newer`. WIRE-SPEC 7.3 says that a v1 node rejects v2 octets under 4.1, the version rule,
  and 4.1 that the version is checked before any other field is acted on. A v2 Header with a field
  appended is refused by the re-encoding of `asn1.go:33` with `ErrNonCanonical`, before
  `header.go:31` looks at the version. It is refused all the same (`NewerIsRefused`).
- `exchange_wide`. WIRE-SPEC 4.2.2 calls an implementation conformant only if it rejects the same
  inputs. `_read_integer` of the Python decoder has no width limit, and no schema sets one, so it
  accepts an INTEGER of 2^63 that every Go reader refuses.
- `determinism_values`. The comment at `analyzer.go:127` says that `calleeFunc` resolves calls through
  method values. The name of `m := proto.MarshalOptions{}.Marshal; m(x)` resolves to a variable, not
  a function, and the call is not reported. (Nor is a call through an interface, which the comment
  does not promise: `ReportIsExact` has it as it is.)
- `determinism_stale`. The analyzer's documentation says that the justification cannot be skipped
  (`analyzer.go:25`). A directive beside a call also covers the line after it (`analyzer.go:171`): a
  banned call put there later is not reported and has no reason of its own.

## 5. Proofs

Every theorem holds for every value of the constants under the modules' assumptions: int64 contains
0 and 1 (and 4, the largest purpose, in `Envelope`), widths are positive, the values handed to
Marshal are values of their Go types, digests, certificates and payloads are octet strings, a
threshold is positive; the text of a SPIFFE ID before the node's number (`/node/`) ends with no
digit; in `Merkle`, arguments have their Go types and `binary.BigEndian` writes a uint64 in a fixed
number of octets and no two alike; in `Determinism`, the kinds of line are well formed and what is no
function is not on the list of banned ones. Nothing is assumed of `WireOf`, `SignatureOf`, `Crashes` or
`Length`; the two ceilings are natural numbers, in any order.

- `Asn1Proofs!RoundTrip`: decoding an encoded value returns it, for every schema of the profile.
  Decoding is a selection by field name; the proof goes through the place of a name in a schema with
  distinct names, once for list elements and once for structs. It rests on no induction: trees have
  the profile's depth.
- `StructuresProofs!AcceptedIsEmitted`, `!EmittedIsAccepted`: for each kind, from the re-encoding of
  `unmarshal` and from the fact that Marshal and Unmarshal make one check. Its lemmas `...CheckIs`
  say of each check exactly when it returns no error.
- `StructuresProofs!DecimalNamesNumber`: the library's induction theorems are out of the prover's
  reach, so the two inductions are made by the least number that a claim fails for (`LeastOfNaturals`): first that the recursion of `Decimal` has a solution and one only
  (`SolutionsExist`, `SolutionsAgree`), then that two numbers with one spelling are one.
  `!SpiffeIDNamesNode`: two derived identities that are equal have one trust domain and one number,
  because digits can be taken off the end up to the separator (`DigitsComeOff`), for any octets in
  the trust domain, digits and separators included.
- `ExchangeProofs`: `TypeOK` and the properties are not inductive: that a verdict on a wire is typed
  needs to know what trees can be on the net. `IInv` says that every wire is a tree of the profile's
  depth with its Version in front, that emitted wires are Marshal's of some value, that newer wires
  have Version 2, and that every verdict is Unmarshal's. Every respelling keeps the first part. From
  `IInv` follow `TypeOK`, `AcceptedIsEmission`, `EmissionIsAccepted`, `NewerIsRefused`,
  `EntriesAreDistinct` and `OneSpelling`; the last one because an ascending list is determined by the
  set of its elements.
- `ExchangeProofs!AlwaysAgree`: from the same `IInv`. `DecodersAgree`: a tree that has one element of the right
  type for each field, which is what `decode_struct` counts, is the encoding of the value read from
  it, which is what `unmarshal` compares; so the two read the same wires within their ceilings,
  INTEGERs beyond int64 aside. `ConstraintsAgree`: structure by structure, `checkX` and `validate` are one condition, but
  for the messages in a certificate. Together they give `Agreement` (`AlwaysAgree`).
  `IdentityNamesOneNode` follows from `SpiffeIDNamesNode` and the checks of accepted memberships.
- `EnvelopeProofs`: `BelievedWasSaid` is not inductive: the step that believes looks at `signed`.
  `IInv` adds that a signature over an envelope means that the statement was made (`SignedWasSaid`),
  which a new signature keeps because one wire is the envelope of one statement
  (`EnvelopeNamesStatement`, from `RoundTrip`), and that each decision counts (`Counts`). Counting
  entries counts signers because ascending signers differ (`CertificateAscends`). From `IInv` follow
  `TypeOK`, `BelievedWasSaid`, `DecidedByQuorum`, and the refinement `PromiseKept`.
- `MerkleProofs!PreimageNamesNode`: the layouts are injective together. The tag in front tells leaf,
  inner node and empty subtree apart, and each part is either of a fixed width or has its length
  before it. `IInv` says that the table of the ideal hash gives no digest twice and that what was
  hashed is the preimage of its node in one of the two layouts, which are one (`LayoutsAgree`). From
  it follow `OneNodePerDigest`, `OneDigestPerNode` and the refinement `NamingKept`.
- `DeterminismProofs`: `TypeOK` is inductive by itself and enough. What is reported at a line is
  what the rules say of the line and of the excuse on it or above it (`Reported`,
  `SuppressedIsExcused`), whatever the edits that led there. For `OneReasonAnswersOne` an inserted
  directive is followed: lines above stay, lines below move by one with what they were told
  (`AboveMoves`), and the line it stands above is excused (`AboveExcuses`).
- `ByteReaderProofs`: that an offset within limits is not inductive by itself, and says nothing of
  what was read. `IInv` says of each call under way that the octets from its start to where it is
  spell the items it has, for the depth that is left to it; of each call but the first, that a tag
  and a length stand before it where its caller is; and that an answer given is right. Closing a
  SEQUENCE makes one item of the octets of its tag, length and items (`CallsClosed`). From it follow
  `InsideContainers` and that nothing but an encoding is read (`ReadAsSpelled`). That no encoding is
  refused takes a second invariant (`Complete`): while an encoding is read, there are items that each
  call will return, the octets to its end spell them, and each call under way reads the next item
  of its caller. So at every step the element at the offset is spelled as the one expected
  (`ItemSpelled`), no step is a `Raise` (`RaiseNever`), and what is returned is the value. Both
  together give the refinement `AnswerKept` (`ReaderKeepsAnswer`): the steps that answer are
  `Codec`'s, the others leave input and verdict alone. `EveryStepLeavesLess` is the part of
  `Terminates` that needs no fairness: a natural number, at first two for each octet and two more,
  is less after every step. Below them are `LengthsHaveOneSpelling` and
  `IntegersHaveOneSpelling`: what is read of octets is spelled with them, and what is spelled is read
  back, for any size of an octet. The inductions, on lengths, on numbers by their size and on
  depth, are made with sets of numbers in the place of predicates (`NatInduct`), and that recursive
  functions are what their definitions say is proved first (`Recursion`, `DeepeningExists`).
- `GatesProofs`: what a green run means is not inductive, because it is the end of a script. `IInv`
  says of each step that has passed what its passing has shown of the repository and the rules
  (`Shown`) and of a failure of the tool it looks at (`Judged`), the run of a tool that a step looks
  at and what that run has found (`RunBefore`), and what was shown stays so: nothing but the
  formatter changes the tree, and the `git diff` after it tells if it has. The bound on things that
  are wrong at once plays no part in it. From it follow `GreenMeansClean`, `GreenMeansFired` and
  `GreenMeansVerdicts`: the linters are alive because they fired on `det` and were silent on `edge`
  (`LintersAreAlive`), what works has found nothing in the repository (`RepositoryIsClean`), and so
  what the checker found in a changed annex is what was planted there (`CheckerIsAlive`).

Of the byte reader it is assumed that an octet has an even number of values, that the four tags
are octets and differ, that `MAX_LENGTH_OCTETS` is below what the long form can count, and that the
values that must be read are within the reader's caps on depth and length (`ByteReaderAssumption`).
Of the gates nothing is assumed.

Checked by TLC only: the liveness properties `Terminates` and `HealthyEndsGreen`, whose fairness
is out of the prover's reach; and what the four runs that expect a violation show.

## 6. Plan

1. Done: `Asn1`, `Structures`, `Verifier`, `Exchange`, `Statements`, `Envelope` and their proofs.
2. Done: `ByteReader` and `Codec`; `Merkle`, `NodeNames` and their proofs; `Determinism` and its
   proofs; `Gates`; the proofs of `Agreement` and `IdentityNamesOneNode`.
3. Done: the proofs of `ByteReader`, its refinement of `Codec` included, and of `Gates`.
4. Open: as for `ByteReader`, a measure that every step of the gates' script lowers, beside
   `HealthyEndsGreen`; octets and trees in one theorem, `Asn1!RoundTrip` over what `ByteReader` reads.

Not modelled, and why:

- lengths octet by octet, in `Exchange`: a wire has a length, whatever spells it; the wires of
  `Envelope` are below both ceilings;
- which octets Python cannot decode (`Crashes` is any set of them), and the value of its recursion
  limit;
- which function runs behind an interface: `Determinism` takes it from the line, and what the
  analyzer sees is the method's name;
- the text of errors and diagnostics, which no caller acts on;
- the arithmetic of Ed25519 and SHA-256 (`ed25519_verify`, `crypto/sha256`): pure arithmetic, taken as
  ideal;
- the ConsensusTime policy of WIRE-SPEC 6, which this repository does not implement;
- the mapping of a signer to a pinned key and the verification of certificate chains (WIRE-SPEC
  3.13.4, 3.11.4), which belong to the layer above;
- the golden octets of the annex, which are data, and what the Go tests assert of them one by one;
- a recursion limit of Python's encoder; the scratch directory of the negative gate and the trap that
  removes it;
- lines of a package with several call sites, and calls over several lines, in `Determinism`.
