------------------------------ MODULE Addresses ------------------------------
(***************************************************************************)
(* The addresses that a bare-metal cluster's components listen on: one     *)
(* base address per listener and component, from which every replica       *)
(* counts up its own, on its command line and in the health probe.  The    *)
(* ports of etcd are its own and left out.                                 *)
(*                                                                         *)
(* A host is "any", "localhost" or another interface; an address that is   *)
(* not configured is NoAddr.                                               *)
(***************************************************************************)
EXTENDS Integers

CONSTANT DefaultBindAddr    \* what metasrv binds to when nothing is configured

NoAddr == [host |-> "", port |-> 0]

\* A configured address: a host, and a port that is positive.
Addr == [host : {"any", "localhost", "other"}, port : Nat \ {0}]

ASSUME BindAssumption == DefaultBindAddr \in Addr

Components == {"metasrv", "datanode", "frontend"}

\* The listeners of each component: the flag, and the field of its
\* configuration.
MetaSrvListeners  == {<<"--http-addr", "http">>, <<"--bind-addr", "bind">>}
DatanodeListeners == {<<"--http-addr", "http">>, <<"--rpc-addr", "rpc">>}
FrontendListeners == {<<"--http-addr", "http">>, <<"--rpc-addr", "grpc">>,
                      <<"--mysql-addr", "mysql">>, <<"--postgres-addr", "postgres">>,
                      <<"--opentsdb-addr", "opentsdb">>}

Listeners == [metasrv  |-> MetaSrvListeners, datanode |-> DatanodeListeners,
              frontend |-> FrontendListeners]

MaybeAddr == Addr \cup {NoAddr}

\* The configurations that pass validation: of each component at least one
\* replica, and well-formed addresses, of which some may be left out.
ValidConfigs ==
    [metasrv  : [replicas : Nat \ {0}, http : Addr, bind : MaybeAddr],
     datanode : [replicas : Nat \ {0}, http : Addr, rpc : Addr],
     frontend : [replicas : Nat \ {0}, http : MaybeAddr, grpc : MaybeAddr, mysql : MaybeAddr,
                 postgres : MaybeAddr, opentsdb : MaybeAddr]]

-----------------------------------------------------------------------------
(* Faulty variants of definitions below *)

\* Every replica gets the address of the first.
BaseAddr(addr, id) == addr

\* The probe asks the first replica each time.
ProbeFirst(cfg, c, id) == [host |-> "localhost", port |-> cfg[c].http.port]

-----------------------------------------------------------------------------
\* No bound: the port may leave the range of ports, or meet another one.
FormatAddrArg(addr, id) ==
    IF addr = NoAddr THEN NoAddr ELSE [addr EXCEPT !.port = @ + id]

\* The base address of a listener.
BaseAddrOf(cfg, c, f) ==
    IF f = "bind" /\ cfg[c][f] = NoAddr THEN DefaultBindAddr ELSE cfg[c][f]

\* The listening addresses on the command line of a replica, in any order: each
\* with its flag, and none for an address that is empty.
BuildArgs(cfg, c, id) ==
    {a \in {<<l[1], FormatAddrArg(BaseAddrOf(cfg, c, l[2]), id)>> : l \in Listeners[c]} :
        a[2] # NoAddr}

\* Metasrv and datanode are asked on localhost, whatever their host is.
OnLocalhost(addr) == [addr EXCEPT !.host = "localhost"]

\* What IsRunning asks for the health of a replica.
Probe(cfg, c, id) ==
    LET addr == FormatAddrArg(cfg[c].http, id)
    IN  IF c = "frontend" THEN addr ELSE OnLocalhost(addr)

-----------------------------------------------------------------------------
\* The listeners there are, and the sockets of all replicas.
Lines(cfg) ==
    {l \in {<<c, f>> : c \in Components,
                       f \in {"http", "bind", "rpc", "grpc", "mysql", "postgres", "opentsdb"}} :
        l[2] \in DOMAIN cfg[l[1]] /\ BaseAddrOf(cfg, l[1], l[2]) # NoAddr}

Base(cfg, l) == BaseAddrOf(cfg, l[1], l[2]).port
Replicas(cfg, l) == cfg[l[1]].replicas

Sockets(cfg) ==
    UNION {{<<l, id>> : id \in 0 .. Replicas(cfg, l) - 1} : l \in Lines(cfg)}

SocketPort(cfg, s) == FormatAddrArg(BaseAddrOf(cfg, s[1][1], s[1][2]), s[2]).port

PortsMeet(cfg) ==
    \E s, t \in Sockets(cfg) : s # t /\ SocketPort(cfg, s) = SocketPort(cfg, t)

\* Two listeners are closer than their replicas reach.
Close(cfg) ==
    \E l, m \in Lines(cfg) :
        /\ l # m
        /\ Base(cfg, l) - Base(cfg, m) < Replicas(cfg, m)
        /\ Base(cfg, m) - Base(cfg, l) < Replicas(cfg, l)

-----------------------------------------------------------------------------
(* Properties of a configuration *)

\* Replicas are given one port twice exactly when the base addresses of two
\* listeners are too close for their numbers of replicas, as http and grpc of
\* two frontends are by default (FormatAddrArg counts up without looking).
PortsMeetWhenClose(cfg) == PortsMeet(cfg) <=> Close(cfg)

(***************************************************************************)
(* A probe reaches a listener at its port if the listener has the host     *)
(* that is asked, or listens on any.                                       *)
(***************************************************************************)
Reaches(probe, listener) ==
    /\ listener.port = probe.port
    /\ listener.host \in {probe.host, "any"}

\* The health probe of a replica reaches the http listener that its own command
\* line gives it, unless it has none or it is a metasrv or datanode on another
\* interface, which is asked on localhost (BuildArgs and IsRunning compute the
\* address separately).
ProbesOwnListener(cfg) ==
    \A c \in Components : \A id \in 0 .. cfg[c].replicas - 1 :
        (\E a \in BuildArgs(cfg, c, id) :
             a[1] = "--http-addr" /\ Reaches(Probe(cfg, c, id), a[2]))
        <=> /\ cfg[c].http # NoAddr
            /\ c = "frontend" \/ cfg[c].http.host \in {"any", "localhost"}
=============================================================================
