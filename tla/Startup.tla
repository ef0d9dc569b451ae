------------------------------- MODULE Startup -------------------------------
(***************************************************************************)
(* From the command's configuration to a Client: loadConfig reads and      *)
(* checks the options (module Configuration), and NewClient makes a dialer *)
(* and turns the instances into listening sockets.  The instances are      *)
(* mounted one after the other; each one may fail to resolve its engine,   *)
(* to get the path of its socket or to listen, and a failure is skipped or *)
(* undoes everything.                                                      *)
(*                                                                         *)
(* A path is the sequence of its elements; the empty one is "not set".     *)
(***************************************************************************)
EXTENDS Configuration

CONSTANTS
    Inputs,         \* what the command may be started with, but for its arguments
    ArgLists(_),    \* the arguments it may be started with
    Names,          \* names of the instances; bound: as many are configured
    ExistingDirs    \* directories that exist when the proxy starts

PgSocket == ".s.PGSQL.5432"

IsSeq(s) == s \in Seq(ToSet(s))

\* A query that has a socket directory has a path for it.
WellFormed(i) == "unix" \in DOMAIN i.query => IsSeq(i.query.unix[1])

\* Numbered instances: INSTANCE_CONNECTION_NAME, _0, _1, ..., each <<>> or one.
Slots(s) ==
    /\ IsSeq(s) /\ Len(s) >= 2
    /\ \A k \in DOMAIN s : IsSeq(s[k]) /\ Len(s[k]) <= 1 /\ \A j \in DOMAIN s[k] : WellFormed(s[k][j])

ASSUME StartupAssumption ==
    /\ Names \in Seq(STRING)
    /\ \A in \in Inputs : /\ in.opts \subseteq Options
                          /\ in.filepath # "good" => DOMAIN in.file = {}
                          /\ \A o \in DOMAIN in.flags : Len(in.flags[o]) = 1

\* The types of what the command is started with.
ASSUME InputAssumption ==
    \A in \in Inputs :
        /\ {"args", "envInsts", "fileInsts", "opts"} \cup Sources \subseteq DOMAIN in
        /\ Slots(in.envInsts) /\ Slots(in.fileInsts)
        /\ \A a \in ArgLists(in) : IsSeq(a) /\ \A k \in DOMAIN a : WellFormed(a[k])
        /\ \A s \in Sources :
              /\ "port" \in DOMAIN in[s] /\ in[s].port # <<>> => in[s].port[1] \in Int
              /\ "unix" \in DOMAIN in[s] /\ in[s].unix # <<>> => IsSeq(in[s].unix[1])

VARIABLES
    input,      \* what the command was started with, fixed
    conf,       \* the global configuration
    insts,      \* conf.Instances
    dialer,     \* the options of the dialer, <<>> or one record
    pos,        \* the instance being mounted
    ports,      \* the portConfig: the next port of each counter
    mnts,       \* the mounts so far: instance, address and dial options
    open,       \* the addresses this process listens on
    dirs,       \* the directories that exist
    skipped,    \* instances left out because of SkipFailedInstanceConfig
    failure,    \* why gcloud or the last instance that failed did
    result      \* "load", "dialer", "running", "fuse", "client" or "error"

given == <<input, conf, insts, dialer>>
vars == <<given, pos, ports, mnts, open, dirs, skipped, failure, result>>

newPortConfig(global) == [global |-> global, POSTGRES |-> 5432, MYSQL |-> 3306, SQLSERVER |-> 1433]

Init ==
    /\ \E in \in Inputs : \E a \in ArgLists(in) : input = [in EXCEPT !.args = a]
    /\ conf = Default /\ insts = <<>> /\ dialer = <<>>
    /\ pos = 1 /\ ports = newPortConfig(0)
    /\ mnts = <<>> /\ open = {} /\ dirs = ExistingDirs
    /\ skipped = {} /\ failure = "none" /\ result = "load"
-----------------------------------------------------------------------------
(***************************************************************************)
(* newSocketMount.                                                         *)
(***************************************************************************)

networkType(g, i) ==
    IF (g.unix = <<>> /\ i.unix = <<>> /\ i.path = <<>>) \/ i.addr # "" \/ i.port # 0
    THEN "tcp" ELSE "unix"

SQLData(g, i) == g.sqlData \/ i.sqlData = "true"

\* Whether the engine has to be asked for, and the engine that is assumed or
\* learned.
NeedsVersion(g, i) ==
    ~SQLData(g, i) /\ (networkType(g, i) = "tcp" => i.port = 0 /\ g.port = 0)
Version(g, i) == IF SQLData(g, i) THEN "POSTGRES" ELSE i.engine

\* The counter that a TCP mount draws its port from, if it draws one.
Counter(g, i) ==
    CASE i.port # 0 -> "none"
      [] i.port = 0 /\ g.port # 0 -> "global"
      [] i.port = 0 /\ g.port = 0 ->
            IF Version(g, i) \in {"POSTGRES", "MYSQL", "SQLSERVER"} THEN Version(g, i) ELSE "global"

\* Mutant: a port that is handed out is not used up.
DrawForgotten(c) == ports

\* nextPort and nextDBPort: the counter moves on.
Draw(c) == IF c = "none" THEN ports ELSE [ports EXCEPT ![c] = @ + 1]

TCPAddress(g, i) ==
    [net |-> "tcp", host |-> IF i.addr # "" THEN i.addr ELSE g.addr,
     port |-> IF i.port # 0 THEN i.port ELSE ports[Counter(g, i)]]

\* The directory or file newUnixSocketMount starts from, for instance number k.
SocketBase(g, i, k) ==
    LET strip == Version(g, i) = "POSTGRES" /\ i.path # <<>> /\ i.path[Len(i.path)] = PgSocket IN
    IF i.path # <<>> THEN IF strip THEN SubSeq(i.path, 1, Len(i.path) - 1) ELSE i.path
    ELSE Append(IF g.unix # <<>> THEN g.unix ELSE i.unix, Names[k])

Parent(path) == SubSeq(path, 1, Len(path) - 1)

\* Postgres gets a directory with the socket in it.
UnixAddress(g, i, k) ==
    LET base == SocketBase(g, i, k) IN
    [net |-> "unix", path |-> IF Version(g, i) = "POSTGRES" THEN Append(base, PgSocket) ELSE base]

Address(g, i, k) ==
    IF networkType(g, i) = "tcp" THEN TCPAddress(g, i) ELSE UnixAddress(g, i, k)

\* The directories newUnixSocketMount has made when it returns.
MadeDirs(g, i, k) ==
    IF networkType(g, i) = "unix" /\ Version(g, i) = "POSTGRES" THEN {SocketBase(g, i, k)} ELSE {}

\* Port 0 asks for a free port, so it never meets one in use.
InUse(a) == a \in open /\ (a.net = "tcp" => a.port # 0)

\* Listen refuses a number that is no port, whether it was configured, stored by
\* a Set that refused it, or counted up to.
IsPort(a) == a.net = "tcp" => a.port \in 0..65535

dialOptions(g, i) ==
    {<<"iamAuthN", i.iamAuthN>> : x \in {i.iamAuthN} \ {"nil"}}
    \cup (IF SQLData(g, i) THEN {<<"sqlData">>} ELSE {})
    \cup (CASE i.privateIP = "true" \/ (i.privateIP = "nil" /\ g.privateIP) -> {<<"privateIP">>}
            [] ~(i.privateIP = "true" \/ (i.privateIP = "nil" /\ g.privateIP))
               /\ (i.psc = "true" \/ (i.psc = "nil" /\ g.psc)) -> {<<"psc">>}
            [] OTHER -> IF g.autoIP THEN {<<"autoIP">>} ELSE {})
    \cup {<<"protocol", IF networkType(g, i) = "unix" THEN "uds" ELSE "tcp">>}
-----------------------------------------------------------------------------
(***************************************************************************)
(* NewClient.                                                              *)
(***************************************************************************)

\* The configuration is taken over, or the command ends with an error.
LoadConfig ==
    /\ result = "load"
    /\ \/ /\ parseConfig(input)
          /\ conf' = loadConfig(input)
          /\ insts' = [k \in DOMAIN instances(input) |-> InstanceConnConfig(instances(input)[k])]
          /\ result' = "dialer"
       \/ ~parseConfig(input) /\ result' = "error" /\ UNCHANGED <<conf, insts>>
    /\ UNCHANGED <<input, dialer, pos, ports, mnts, open, dirs, skipped, failure>>

\* gcloud.TokenSource runs gcloud for a first token, which may fail.
GcloudFails ==
    /\ result = "dialer" /\ "dialer" \notin input.opts /\ Source(conf) = "gcloudAuth"
    /\ result' = "error" /\ failure' = "gcloud"
    /\ UNCHANGED <<given, pos, ports, mnts, open, dirs, skipped>>

\* The outcomes of configureFUSE: the directory is not there, or the one for the
\* sockets cannot be made; else the client is that of module Fuse.
configureFUSE == {"fuse", "error"}

\* A dialer is made unless NewCommand was given one; impersonation or the dialer
\* itself may fail.  Then mounting begins, unless FUSE is asked for.
NewDialer ==
    /\ result = "dialer"
    /\ \/ /\ dialer' = IF "dialer" \in input.opts THEN <<>> ELSE <<DialerOptions(conf, insts)>>
          /\ ports' = newPortConfig(conf.port)
          /\ result' \in IF conf.fuse THEN configureFUSE ELSE {"running"}
       \/ "dialer" \notin input.opts /\ result' = "error" /\ UNCHANGED <<dialer, ports>>
    /\ UNCHANGED <<input, conf, insts, pos, mnts, open, dirs, skipped, failure>>

Inst == insts[pos]
Mounting == result = "running" /\ pos <= Len(insts)

\* Mutant: the mounts made so far are left listening.
CloseMountsNot == open

\* m.Close() for every mount made so far.
CloseMounts == open \ {mnts[k].addr : k \in DOMAIN mnts}

\* Mutant: a failure that is skipped ends the loop.
FailBreaks(why) ==
    /\ failure' = why
    /\ \/ /\ conf.skip
          /\ skipped' = skipped \cup {pos}
          /\ pos' = Len(insts) + 1
          /\ UNCHANGED <<open, result>>
       \/ /\ ~conf.skip
          /\ result' = "error"
          /\ open' = CloseMounts
          /\ UNCHANGED <<skipped, pos>>
    /\ UNCHANGED <<given, mnts>>

\* Skip the instance, or close what was mounted and give up.
Fail(why) ==
    /\ failure' = why
    /\ \/ /\ conf.skip
          /\ skipped' = skipped \cup {pos}
          /\ pos' = pos + 1
          /\ UNCHANGED <<open, result>>
       \/ /\ ~conf.skip
          /\ result' = "error"
          /\ open' = CloseMounts
          /\ UNCHANGED <<skipped, pos>>
    /\ UNCHANGED <<given, mnts>>

\* EngineVersion fails: no port is drawn and no directory made.
EngineFails ==
    /\ Mounting /\ NeedsVersion(conf, Inst)
    /\ Fail("engine")
    /\ UNCHANGED <<ports, dirs>>

\* The parent directory is missing, or Mkdir fails.
SocketPathFails ==
    /\ Mounting /\ networkType(conf, Inst) = "unix"
    /\ \/ Parent(SocketBase(conf, Inst, pos)) \notin dirs
       \/ MadeDirs(conf, Inst, pos) \ dirs # {}
    /\ Fail("path")
    /\ UNCHANGED <<ports, dirs>>

\* The address can be computed: what comes before Listen has succeeded.
Addressed ==
    /\ Mounting
    /\ networkType(conf, Inst) = "unix" => Parent(SocketBase(conf, Inst, pos)) \in dirs
    /\ ports' = IF networkType(conf, Inst) = "tcp" THEN Draw(Counter(conf, Inst)) ELSE ports
    /\ dirs' = dirs \cup MadeDirs(conf, Inst, pos)

\* Listen fails, because this process has the address or for another reason.
ListenFails ==
    /\ Addressed
    /\ Fail(IF InUse(Address(conf, Inst, pos)) THEN "inuse" ELSE "listen")

Mount ==
    /\ Addressed
    /\ ~InUse(Address(conf, Inst, pos)) /\ IsPort(Address(conf, Inst, pos))
    /\ mnts' = Append(mnts, [inst |-> pos, addr |-> Address(conf, Inst, pos),
                             opts |-> dialOptions(conf, Inst)])
    /\ open' = open \cup {Address(conf, Inst, pos)}
    /\ pos' = pos + 1
    /\ UNCHANGED <<given, skipped, failure, result>>

Done ==
    /\ result = "running" /\ pos > Len(insts)
    /\ result' = "client"
    /\ UNCHANGED <<given, pos, ports, mnts, open, dirs, skipped, failure>>

Next == LoadConfig \/ GcloudFails \/ NewDialer \/ EngineFails \/ SocketPathFails \/ ListenFails \/ Mount \/ Done

Spec == Init /\ [][Next]_vars
-----------------------------------------------------------------------------
\* When NewClient fails, it has closed every listener it had opened, whichever
\* instance failed and at which point.
NothingLeftListening == result = "error" => open = {}

\* A client has exactly one mount for each instance that was not skipped, in
\* the order of the configuration, and without the flag nothing is skipped.
EveryInstanceMounted ==
    result = "client" =>
        /\ {mnts[k].inst : k \in DOMAIN mnts} = DOMAIN insts \ skipped
        /\ \A j, k \in DOMAIN mnts : j < k => mnts[j].inst < mnts[k].inst
        /\ ~conf.skip => skipped = {}

\* The addresses that the proxy chooses by itself do not get in each other's
\* way: Listen meets an address of this process only if the configuration
\* names a port or the path of a socket.  This is so for instances whose names
\* differ, and up to 1434 of them.
NoSelfConflict ==
    failure = "inuse" => \E k \in DOMAIN insts : insts[k].port # 0 \/ insts[k].path # <<>>

\* No credential is silently ignored: what the command line, the environment or
\* the file asks for is what the dialer uses, unless a source that goes before
\* it sets the same option.
CredentialsAsAsked ==
    dialer # <<>> =>
        \A o \in Credentials, s \in Sources :
            (o \in DOMAIN input[s] /\ input[s][o] = <<TRUE>> /\ FirstSetter(input, o) = s)
            => dialer[1].source = o

\* Whether a mount logs in with IAM: what its dial options say, else the default
\* of the dialer.
DialsWithIAM(m) ==
    \/ <<"iamAuthN", "true">> \in m.opts
    \/ <<"iamAuthN", "false">> \notin m.opts /\ dialer[1].iam

\* A mount logs in with IAM if its instance says so, or says nothing and the
\* global flag is set; then the dialer is prepared for it, and with impersonation
\* or a login token it has a token source for logins.  It does not if its
\* instance says no.
IAMLoginWhereAsked ==
    dialer # <<>> =>
        \A k \in DOMAIN mnts :
            LET i == insts[mnts[k].inst] IN
            /\ i.iamAuthN = "true" \/ (i.iamAuthN = "nil" /\ conf.iamAuthN) =>
                    /\ DialsWithIAM(mnts[k]) /\ dialer[1].iam
                    /\ conf.chain # <<>> \/ conf.loginToken => dialer[1].loginSource
            /\ i.iamAuthN = "false" => ~DialsWithIAM(mnts[k])
-----------------------------------------------------------------------------
(***************************************************************************)
(* What a comment of the code says and the code does not do.               *)
(***************************************************************************)

\* Config.Instances: "Instance configuration takes precedence over global
\* configuration.", for the connection type of the instance.
InstanceDialOptionsWin ==
    \A k \in DOMAIN mnts :
        LET i == insts[mnts[k].inst] IN
        /\ i.psc = "true" => <<"psc">> \in mnts[k].opts
        /\ i.sqlData = "false" => <<"sqlData">> \notin mnts[k].opts
==============================================================================
