------------------------------ MODULE MCStartup ------------------------------
(***************************************************************************)
(* Instances of Startup for TLC.  Four families of inputs vary what        *)
(* decides about addresses, about credentials, about what is refused and   *)
(* where instances come from, and about dial options.  Each family varies  *)
(* only its own options, so that their sizes add up.                       *)
(***************************************************************************)
EXTENDS Startup

OneName == <<"i1">>
ThreeNames == <<"i1", "i2", "i3">>

Dir1 == <<"d1">>
Dir2 == <<"d2">>
Existing == {Dir1, Dir2}

\* Stands for 2^63 - 1, the integer that is stored for a larger one.
HugePort == 2000000000

NoSlots == <<<<>>, <<>>>>
PlainInput == [flags |-> <<>>, env |-> <<>>, file |-> <<>>, opts |-> {}, filepath |-> "none",
               supportsFUSE |-> TRUE, args |-> <<>>, envInsts |-> NoSlots, fileInsts |-> NoSlots]

PlainInst == [query |-> <<>>, engine |-> "POSTGRES"]
With(q) == [PlainInst EXCEPT !.query = q]
Engine(e) == [PlainInst EXCEPT !.engine = e]
SeqsUpTo(S, n) == UNION {[1..k -> S] : k \in 1..n}
-----------------------------------------------------------------------------
AddressFlags ==
    {[port |-> <<5000>>, skip |-> <<s>>] : s \in BOOLEAN}
    \cup {[unix |-> <<u>>, sqlData |-> <<d>>, skip |-> <<s>>] :
             u \in {<<>>, Dir1}, d \in BOOLEAN, s \in BOOLEAN}

AddressInsts ==
    {Engine(e) : e \in {"POSTGRES", "MYSQL", "SQLSERVER", "OTHER"}}
    \cup {With([port |-> <<n>>]) : n \in {5001, 3306}}
    \cup {[With([unix |-> <<Dir2>>]) EXCEPT !.engine = e] : e \in {"POSTGRES", "MYSQL"}}
    \cup {[With([path |-> <<f>>]) EXCEPT !.engine = e] :
             f \in {<<"d1", "s">>, <<"d1", "s", PgSocket>>, <<"gone", "s">>},
             e \in {"POSTGRES", "MYSQL"}}
    \cup {With([addr |-> <<"10.0.0.1">>])}
    \cup {With([addr |-> <<"10.0.0.1">>, sqlData |-> <<b>>]) : b \in {"true", "false"}}

AddressInputs == {[PlainInput EXCEPT !.flags = f] : f \in AddressFlags}
-----------------------------------------------------------------------------
\* A setting: a source, a credential, and what it is set to.
Settings ==
    {<<s, o, <<b>>>> : s \in Sources, o \in Credentials, b \in BOOLEAN}
    \cup {<<s, "gcloudAuth", <<FALSE, "refused">>>> : s \in {"env", "file"}}

\* The source s with the settings of S and what else it sets.
SourceOf(S, s, more) ==
    LET mine == {t \in S : t[1] = s}
    IN  [o \in {t[2] : t \in mine} \cup DOMAIN more |->
            IF o \in DOMAIN more THEN more[o] ELSE (CHOOSE t \in mine : t[2] = o)[3]]

CredentialInputs ==
    {[PlainInput EXCEPT !.flags = SourceOf(S, "flags", f), !.env = SourceOf(S, "env", e),
                        !.file = SourceOf(S, "file", <<>>), !.filepath = "good"] :
        S \in {{s, t} : s, t \in Settings},
        f \in {<<>>, [iamAuthN |-> <<TRUE>>], [chain |-> <<<<"sa1", "sa2", "sa3">>>>]},
        e \in {<<>>, [loginToken |-> <<TRUE>>]}}

CredentialInsts == {PlainInst, With([iamAuthN |-> <<"t">>]), With([iamAuthN |-> <<"f">>])}
-----------------------------------------------------------------------------
BadQueries ==
    {[addr |-> <<"10.0.0.1">>, unix |-> <<Dir1>>], [port |-> <<5000>>, path |-> <<Dir1>>],
     [unix |-> <<Dir1>>, path |-> <<Dir1>>], [port |-> <<5000, 5001>>], [sqlData |-> <<"t">>],
     [psc |-> <<"yes">>], [privateIP |-> <<"">>, psc |-> <<"f">>]}

Refused ==
    {[PlainInput EXCEPT !.filepath = "bad"], PlainInput,
     [PlainInput EXCEPT !.opts = {"fuse"}, !.supportsFUSE = FALSE],
     [PlainInput EXCEPT !.opts = {"fuse"}, !.env = [connTest |-> <<TRUE>>]]}
    \cup {[PlainInput EXCEPT !.args = <<PlainInst, With(q)>>] : q \in BadQueries}
    \cup {[PlainInput EXCEPT !.args = <<PlainInst>>, !.flags = f, !.env = e] :
             f \in {[unix |-> <<Dir1>>], [autoIP |-> <<TRUE>>], [universe |-> <<TRUE>>]},
             e \in {[addr |-> <<"notAnIP">>], [port |-> <<5000>>],
                    [privateIP |-> <<TRUE>>], [privateIP |-> <<TRUE>>, psc |-> <<TRUE>>],
                    [apiEndpoint |-> <<TRUE>>]}}
    \cup {[PlainInput EXCEPT !.args = <<With([privateIP |-> <<"">>])>>, !.opts = {"autoIP"}]}

\* FUSE, a dialer of the caller, ports that Set refuses as not a number and as
\* out of range, and instances of each source with a gap.
Accepted ==
    {[PlainInput EXCEPT !.opts = {"fuse"}],
     [PlainInput EXCEPT !.opts = {"dialer"}, !.args = <<PlainInst>>]}
    \cup {[PlainInput EXCEPT !.args = <<PlainInst, Engine("MYSQL")>>, !.filepath = "good",
                             !.env = [port |-> <<n, "refused">>], !.file = [port |-> <<5000>>]] :
             n \in {0, HugePort}}
    \cup {[PlainInput EXCEPT !.args = a, !.envInsts = e, !.fileInsts = f, !.filepath = "good"] :
             a \in {<<>>, <<PlainInst>>},
             e \in {NoSlots, <<<<>>, <<Engine("MYSQL")>>, <<Engine("MYSQL")>>>>,
                    <<<<>>, <<>>, <<Engine("MYSQL")>>>>},
             f \in {<<<<PlainInst>>, <<>>, <<PlainInst>>, <<>>, <<PlainInst>>>>}}

StartupInputs == AddressInputs \cup CredentialInputs \cup Refused \cup Accepted

StartupArgs(in) ==
    IF in \in AddressInputs THEN SeqsUpTo(AddressInsts, 3)
    ELSE IF in.filepath = "good" /\ in \notin Accepted THEN SeqsUpTo(CredentialInsts, 2)
    ELSE {in.args}
-----------------------------------------------------------------------------
DialInputs ==
    {[PlainInput EXCEPT !.flags = [privateIP |-> <<p>>, psc |-> <<s>>, sqlData |-> <<d>>],
                        !.args = <<With(q)>>] :
        p \in BOOLEAN, s \in BOOLEAN, d \in BOOLEAN,
        q \in {<<>>} \cup {(k :> <<b>>) @@ m : k \in {"privateIP", "psc"}, b \in {"true", "false"},
                             m \in {<<>>} \cup {[sqlData |-> <<c>>] : c \in {"true", "false"}}}}
    \cup {[PlainInput EXCEPT !.flags = [autoIP |-> <<TRUE>>, psc |-> <<s>>],
                             !.args = <<With([psc |-> <<b>>])>>] :
             s \in BOOLEAN, b \in {"true", "false"}}

GivenArgs(in) == {in.args}
==============================================================================
