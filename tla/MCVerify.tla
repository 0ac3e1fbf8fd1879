------------------------------ MODULE MCVerify ------------------------------
(* An instance of Verify for TLC: the library VeLogo and the contract      *)
(* VeLogic of scripts/verify.ts, and an artifact for every case the lookup *)
(* tells apart.  Addresses have one byte.                                  *)
EXTENDS Verify, TLC

VeLogoName == <<"VeLogo.sol", "VeLogo">>

\* The networks of hardhat.config.ts and hardhat's own `localhost`; no key is set for goerli.
SomeNetworks ==
    ("hardhat" :> 31337) @@ ("localhost" :> 31337) @@ ("zkevmtestnet" :> 1442) @@ ("goerli" :> 5)
SomeCustomChains == <<<<"zkevm", 1101>>, <<"zkevmtestnet", 1442>>>>
SomeKeys == ("zkevm" :> "key") @@ ("zkevmtestnet" :> "key") @@ ("goerli" :> "")

ScriptOfTwo == <<"VeLogo", "VeLogic">>

PUSH == 115
LinkHere == -2
Metadata(version) == <<7, version, 0, 2>>
At(start) == [start |-> start, length |-> 1]

Artifact(body, links, immutables, undetectable, buildInfo, version) ==
    [output |-> [object |-> body \o Metadata(version), linkReferences |-> links, immutableReferences |-> immutables],
     linkReferences |-> [lib \in DOMAIN links \cup undetectable |-> {}],
     buildInfo |-> buildInfo, solcVersion |-> version]

CtorLibs == {<<"l.sol", "Lib">>, <<"m.sol", "Lib">>, <<"k.sol", "Key">>}

SomeArtifacts ==
    (VeLogoName :> Artifact(<<PUSH, 0, 10>>, <<>>, {}, {}, TRUE, 819))
 @@ (<<"VeLogic.sol", "VeLogic">> :>
        Artifact(<<20, LinkHere, 21, 0>>, VeLogoName :> {At(1)}, {At(3)}, {}, TRUE, 819))
 @@ (<<"Ctor.sol", "Ctor">> :> Artifact(<<40, LinkHere>>, VeLogoName :> {At(1)}, {}, CtorLibs, TRUE, 819))
 @@ (<<"a.sol", "Twin">> :> Artifact(<<30>>, <<>>, {}, {}, TRUE, 819))
 @@ (<<"b.sol", "Twin">> :> Artifact(<<30>>, <<>>, {}, {}, TRUE, 819))
 @@ (<<"Old.sol", "Old">> :> Artifact(<<50>>, <<>>, {}, {}, TRUE, 706))
 @@ (<<"Lost.sol", "Lost">> :> Artifact(<<60>>, <<>>, {}, {}, FALSE, 819))
 @@ (<<"Ovm.sol", "Ovm">> :> Artifact(<<200, 70>>, <<>>, {}, {}, TRUE, 819))

\* Deployed code: as compiled, from other sources, cut short, and with a length field of its own.
SomeCodes ==
    ("VeLogo" :> {
        <<>>, <<9>>, <<PUSH, 5, 10>> \o Metadata(819), <<PUSH, 5, 11>> \o Metadata(819),
        <<PUSH, 5, 10>> \o Metadata(706), <<PUSH, 5, 10, 8, 0, 1>>, <<PUSH, 5, 10, 255, 255>>})
 @@ ("VeLogic" :> {
        <<20, 5, 21, 9>> \o Metadata(819), <<20, 5, 21>> \o Metadata(819), <<40, 5>> \o Metadata(819),
        <<30>> \o Metadata(819), <<50>> \o Metadata(819), <<60>> \o Metadata(819),
        <<201, 70, 0, 0>>, <<201, 70>>})

Given(name, bytes, form) == [name |-> name, address |-> [bytes |-> <<bytes>>, form |-> form]]
Ctor(entries) == <<Given(<<"l.sol", "Lib">>, 3, "lower"), Given(<<"m.sol", "Lib">>, 4, "mixed")>> \o entries

SomeArgs ==
    {[contract |-> name, libraries |-> <<>>] :
        name \in {noName, <<"no.sol", "Such">>} \cup DOMAIN SomeArtifacts}
    \cup {[contract |-> noName, libraries |-> libs] : libs \in {
        <<Given(VeLogoName, 5, "mixed")>>,
        <<Given(VeLogoName, 6, "lower")>>,
        <<Given(VeLogoName, 5, "bare")>>,
        <<Given(VeLogoName, 5, "none")>>,
        <<Given(<<"", "Lib">>, 3, "lower")>>,
        <<Given(<<"", "Key">>, 3, "lower")>>,
        Ctor(<<Given(<<"", "Key">>, 5, "lower")>>),
        Ctor(<<Given(<<"", "Key">>, 5, "lower"), Given(<<"k.sol", "Key">>, 6, "lower")>>)}}
=============================================================================
