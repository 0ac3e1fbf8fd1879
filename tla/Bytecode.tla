------------------------------ MODULE Bytecode ------------------------------
(* solc/bytecode.ts and solc/metadata.ts: is the code found on chain the   *)
(* code of an artifact?  Code is a sequence of bytes; the hexadecimal      *)
(* strings of the program hold two characters for each.  The artifact's    *)
(* code may hold link placeholders, which are no bytes.                    *)
EXTENDS Integers, Sequences, FiniteSetsExt

CONSTANTS
    AddressSize,   \* bytes of an address, 20 on chain
    PUSH20,        \* the opcode a library's code begins with
    Placeholder,   \* stands where the address of a library will be linked
    OVM_FIND_OPCODES, OVM_REPLACE_OPCODES,  \* the two strings, each taken as one byte
    SOLC           \* the key of the version in the metadata

ASSUME AddressSizeAssumption == AddressSize \in Nat \ {0}

\* A version is a number, 0.8.19 being 819; a semver range is a pair of bounds.
SOLC_NOT_FOUND_IN_METADATA_VERSION_RANGE == <<407, 508>>
MISSING_METADATA_VERSION_RANGE == <<0, 406>>
satisfies(version, range) == range[1] <= version /\ version <= range[2]

METADATA_LENGTH == 2

-----------------------------------------------------------------------------
\* JavaScript's slice(0, end) and slice(start): a negative end counts from the back.
sliceTo(s, end) == SubSeq(s, 1, IF end >= 0 THEN Min({end, Len(s)}) ELSE Max({0, Len(s) + end}))
sliceFrom(s, start) == SubSeq(s, start + 1, Len(s))

\* The last two bytes, most significant first, and themselves.  Reading them off a
\* shorter buffer throws.
readableLength(bytecode) == Len(bytecode) >= METADATA_LENGTH
getMetadataSectionLength(bytecode) ==
    bytecode[Len(bytecode) - 1] * 256 + bytecode[Len(bytecode)] + METADATA_LENGTH

\* The CBOR decoder fails on nothing and on a cut entry; what else it finds is the version
\* under `solc`, or no version.
decodable(payload) == payload \notin {<<>>, <<SOLC>>}
solcVersion(payload) ==
    IF Len(payload) >= 2 /\ payload[1] = SOLC THEN <<payload[2], payload[2]>>
    ELSE SOLC_NOT_FOUND_IN_METADATA_VERSION_RANGE

metadataPayload(bytecode) ==
    SubSeq(bytecode, Max({0, Len(bytecode) - getMetadataSectionLength(bytecode)}) + 1,
           Len(bytecode) - METADATA_LENGTH)

inferCompilerVersion(bytecode) ==
    IF readableLength(bytecode) /\ decodable(metadataPayload(bytecode))
    THEN solcVersion(metadataPayload(bytecode))
    ELSE MISSING_METADATA_VERSION_RANGE

-----------------------------------------------------------------------------
\* new Bytecode(code): the constructor reads the metadata length outside any try.
constructible(bytecode) == readableLength(bytecode)

isOvm(bytecode) == \E i \in DOMAIN bytecode : bytecode[i] = OVM_REPLACE_OPCODES

getMatchingVersions(bytecode, versions) == {v \in versions : satisfies(v, inferCompilerVersion(bytecode))}

_getExecutableSection(bytecode) ==
    sliceTo(bytecode, Len(bytecode) - getMetadataSectionLength(bytecode))

\* The same for the compiler's output, whose last bytes may be no bytes.
inferExecutableSection(object) ==
    IF Len(object) >= METADATA_LENGTH /\ Placeholder \notin {object[Len(object) - 1], object[Len(object)]}
    THEN _getExecutableSection(object)
    ELSE object

getLibraryOffsets(linkReferences) == UNION {linkReferences[lib] : lib \in DOMAIN linkReferences}
getImmutableOffsets(immutableReferences) == immutableReferences

\* A deployed library holds its own address where the compiler left zeros.
getCallProtectionOffsets(bytecode, referenceBytecode) ==
    LET zeros == [i \in 1..AddressSize |-> 0]
    IN  IF /\ sliceTo(referenceBytecode, AddressSize + 1) = <<PUSH20>> \o zeros
           /\ sliceTo(bytecode, 1) = <<PUSH20>>
        THEN {[start |-> 1, length |-> AddressSize]}
        ELSE {}

nullified(bytecode, offset) ==
    sliceTo(bytecode, offset.start) \o [i \in 1..offset.length |-> 0]
        \o sliceFrom(bytecode, offset.start + offset.length)

\* Variant: immutables are compared.
nullifyBytecodeOffsets_keepsImmutables(bytecode, output) ==
    FoldSet(LAMBDA offset, b : nullified(b, offset), bytecode,
            getLibraryOffsets(output.linkReferences)
            \cup getCallProtectionOffsets(bytecode, output.object))

nullifyBytecodeOffsets(bytecode, output) ==
    FoldSet(LAMBDA offset, b : nullified(b, offset), bytecode,
            getLibraryOffsets(output.linkReferences)
            \cup getImmutableOffsets(output.immutableReferences)
            \cup getCallProtectionOffsets(bytecode, output.object))

\* Variant: the length of the code is not compared.
compare_anyLength(bytecode, output) ==
    LET executableSection == _getExecutableSection(bytecode)
        referenceSection == sliceTo(inferExecutableSection(output.object), Len(executableSection))
    IN  nullifyBytecodeOffsets(executableSection, output) = nullifyBytecodeOffsets(referenceSection, output)

\* compare: equal executable sections, apart from what is only known after deployment.
compare(bytecode, output) ==
    LET executableSection == _getExecutableSection(bytecode)
        inferred == inferExecutableSection(output.object)
        referenceSection ==
            IF isOvm(bytecode)
            THEN [i \in DOMAIN inferred |->
                    IF inferred[i] = OVM_FIND_OPCODES THEN OVM_REPLACE_OPCODES ELSE inferred[i]]
            ELSE inferred
    IN  /\ Len(executableSection) = Len(referenceSection) \/ isOvm(bytecode)
        /\ nullifyBytecodeOffsets(executableSection, output) = nullifyBytecodeOffsets(referenceSection, output)

=============================================================================
