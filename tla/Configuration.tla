---------------------------- MODULE Configuration ----------------------------
(***************************************************************************)
(* The configuration of the command: how flags, environment, config file   *)
(* and the functional options of NewCommand become a proxy.Config          *)
(* (loadConfig), what parseConfig refuses, how the query parameters of an  *)
(* instance are read, and which credentials the dialer gets (DialerOptions *)
(* and credentialsOpt).                                                    *)
(*                                                                         *)
(* A source of options is a function from the options it sets to <<v>>, or *)
(* to <<v, "refused">> for a value that the flag's Set refuses, where v is *)
(* what pflag stores nevertheless: FALSE for a Boolean, 0 or the nearest   *)
(* integer for a number.  A string option that is only compared with "" is *)
(* a Boolean.                                                              *)
(***************************************************************************)
EXTENDS Integers, Sequences, SequencesExt, FiniteSets

\* The defaults of the flags.
Default ==
    [addr |-> "127.0.0.1", port |-> 0, unix |-> <<>>, sqlData |-> FALSE, privateIP |-> FALSE,
     psc |-> FALSE, autoIP |-> FALSE, skip |-> FALSE, fuse |-> FALSE, connTest |-> FALSE,
     token |-> FALSE, loginToken |-> FALSE, credentialsFile |-> FALSE, credentialsJSON |-> FALSE,
     gcloudAuth |-> FALSE, iamAuthN |-> FALSE, chain |-> <<>>, apiEndpoint |-> FALSE,
     universe |-> FALSE]

Sources == {"flags", "env", "file"}

\* WithAutoIP, the choice of addresses of version 1.
LegacyIP == "autoIP"

\* The options of NewCommand that count here: WithDialer, WithFuseDir, WithAutoIP.
Options == {"dialer", "fuse", LegacyIP}
-----------------------------------------------------------------------------
(***************************************************************************)
(* loadConfig.                                                             *)
(***************************************************************************)

\* The source that option o is taken from: the first one that sets it.
FirstSetter(in, o) ==
    IF o \in DOMAIN in.flags THEN "flags"
    ELSE IF o \in DOMAIN in.env THEN "env"
    ELSE IF o \in DOMAIN in.file THEN "file" ELSE "none"

\* Its value there.  What Set says of it is ignored, and so is what a later
\* source has.
Given(in, o) == IF FirstSetter(in, o) = "none" THEN <<>> ELSE in[FirstSetter(in, o)][o]

\* userHasSetLocal, also true for options from the environment or the file, but
\* not for a value that Set refused.
Changed(in, o) == Len(Given(in, o)) = 1

\* A refused value is stored all the same.  The options of NewCommand come last
\* and leave Changed alone.
loadConfig(in) ==
    [o \in DOMAIN Default |->
        IF o \in in.opts THEN TRUE ELSE IF Given(in, o) # <<>> THEN Given(in, o)[1] ELSE Default[o]]

\* Instances by number: INSTANCE_CONNECTION_NAME, s[1], or else _0, s[2]; then
\* _1, s[3], and so on up to the first gap.  Each is <<>> or one instance.
numbered(s) ==
    LET first == IF s[1] # <<>> THEN s[1] ELSE s[2]
        taken == {k \in 3..Len(s) : \A j \in 3..k : s[j] # <<>>}
    IN  IF first = <<>> THEN <<>> ELSE first \o [k \in 1..Cardinality(taken) |-> s[k + 2][1]]

Slot(s, k) == IF k <= Len(s) THEN s[k] ELSE <<>>

\* What viper finds for each number: the environment again, else the file.
viperInsts(in) ==
    [k \in 1..(Len(in.envInsts) + Len(in.fileInsts)) |->
        IF Slot(in.envInsts, k) # <<>> THEN Slot(in.envInsts, k) ELSE Slot(in.fileInsts, k)]

\* The arguments, else the environment, else the file.
instances(in) ==
    IF in.args # <<>> THEN in.args
    ELSE IF numbered(in.envInsts) # <<>> THEN numbered(in.envInsts) ELSE numbered(viperInsts(in))
-----------------------------------------------------------------------------
(***************************************************************************)
(* parseConfig.                                                            *)
(***************************************************************************)

Credentials == {"token", "credentialsFile", "credentialsJSON", "gcloudAuth"}

AtMostOne(c, names) == Cardinality({n \in names : c[n]}) <= 1

NotBoth(in, a, b) == ~(Changed(in, a) /\ Changed(in, b))

\* Mutant: JSON credentials are forgotten.
OneCredentialButJSON(c) == AtMostOne(c, {"token", "credentialsFile", "gcloudAuth"})

\* The six pairs of credentials.
OneCredential(c) == AtMostOne(c, Credentials)

\* --auto-iam-authn with --token, --login-token and --gcloud-auth.
IAMFlags(c) ==
    /\ c.iamAuthN /\ c.token => c.loginToken
    /\ c.iamAuthN => ~c.gcloudAuth
    /\ c.loginToken => c.token /\ c.iamAuthN

\* What parseConfig demands of the global options; n instances are named.
ValidGlobal(in, c, n) ==
    /\ n > 0 \/ c.fuse
    /\ c.fuse => ~c.connTest /\ in.supportsFUSE
    /\ NotBoth(in, "addr", "unix") /\ NotBoth(in, "port", "unix")
    /\ c.addr # "notAnIP"
    /\ NotBoth(in, "privateIP", "autoIP")
    /\ AtMostOne(c, {"privateIP", "psc", "sqlData"})
    /\ OneCredential(c) /\ IAMFlags(c)
    /\ NotBoth(in, "apiEndpoint", "universe")

\* A *bool, from a query parameter in lower case.
Bools == {"nil", "true", "false"}
parseBoolOpt(v) ==
    CASE v \in {"true", "t", ""} -> "true" [] v \in {"false", "f"} -> "false" [] OTHER -> "error"
BoolOpts == {"iamAuthN", "privateIP", "psc"}

\* The query parameters of an instance: a function from the ones that are there
\* to their values.  A value that net.ParseIP or strconv.Atoi refuses is left
\* out: the parameter is refused just as one with two values.
Param(q, k, unset) == IF k \in DOMAIN q THEN q[k][1] ELSE unset
BoolParam(q, k) == IF k \in DOMAIN q THEN parseBoolOpt(q[k][1]) ELSE "nil"

\* What parseConfig demands of them.
ValidQuery(c, q) ==
    /\ DOMAIN q \cap {"addr", "port"} # {} => DOMAIN q \cap {"unix", "path"} = {}
    /\ ~({"unix", "path"} \subseteq DOMAIN q)
    /\ \A k \in DOMAIN q : Len(q[k]) = 1
    /\ Param(q, "sqlData", "nil") \in Bools
    /\ \A k \in BoolOpts : BoolParam(q, k) # "error"
    /\ ~(BoolParam(q, "privateIP") = "true" /\ c.autoIP)
    /\ ~({"privateIP", "psc"} \subseteq DOMAIN q)

\* The configuration of an instance, and the engine that EngineVersion reports.
InstanceConnConfig(i) ==
    LET q == i.query
    IN  [addr |-> Param(q, "addr", ""), port |-> Param(q, "port", 0),
         unix |-> Param(q, "unix", <<>>), path |-> Param(q, "path", <<>>),
         sqlData |-> Param(q, "sqlData", "nil"), iamAuthN |-> BoolParam(q, "iamAuthN"),
         privateIP |-> BoolParam(q, "privateIP"), psc |-> BoolParam(q, "psc"),
         engine |-> i.engine]

\* The command accepts its configuration.  The path of the config file can come
\* from the command line alone; "bad" is a file that initViper refuses.
parseConfig(in) ==
    LET c == loadConfig(in)
    IN  /\ in.filepath # "bad"
        /\ ValidGlobal(in, c, Len(instances(in)))
        /\ \A k \in DOMAIN instances(in) : ValidQuery(c, instances(in)[k].query)
-----------------------------------------------------------------------------
(***************************************************************************)
(* DialerOptions.                                                          *)
(***************************************************************************)

\* Mutant: only the global flag counts.
iamAuthNFlag(c, is) == c.iamAuthN

iamAuthNEnabled(c, is) == c.iamAuthN \/ \E k \in DOMAIN is : is[k].iamAuthN = "true"

\* The first credential of the switch that is set, else the default ones.
Source(c) ==
    IF c.token THEN "token" ELSE IF c.credentialsFile THEN "credentialsFile"
    ELSE IF c.credentialsJSON THEN "credentialsJSON"
    ELSE IF c.gcloudAuth THEN "gcloudAuth" ELSE "default"

\* sa1,sa2,sa3: sa3 delegates to sa2, which impersonates the target sa1.
parseImpersonationChain(chain) ==
    IF chain = <<>> THEN [target |-> "none", delegates |-> <<>>]
    ELSE [target |-> Head(chain), delegates |-> Reverse(Tail(chain))]

\* Whether the dialer gets a token source of its own for database logins.
LoginSource(c, is) ==
    IF c.chain # <<>> THEN iamAuthNEnabled(c, is) ELSE c.token /\ c.iamAuthN

\* The options of the dialer: the credentials, and IAM login as its default.
DialerOptions(c, is) ==
    [source |-> Source(c), impersonate |-> parseImpersonationChain(c.chain),
     loginSource |-> LoginSource(c, is), iam |-> iamAuthNEnabled(c, is)]
==============================================================================
