------------------------------ MODULE Backend ------------------------------
(***************************************************************************)
(* The lifecycle of Modbus instances and their communication backends:     *)
(*   modbus_backend_create/destory/open/close/read/write/flush             *)
(*     (src/unnamed/part_004)                                              *)
(*   modbus_create/destroy/connect/disconn/recv/send/flush                 *)
(*     (src/verify-rs485-packages/applications/Modbus/Src/modbus_instance.c)*)
(*                                                                         *)
(* The application drives a few instances (a master on the serial line,   *)
(* or a TCP server with one SOCK instance per accepted connection).  Each  *)
(* instance's backend has hinst, the open driver handle or NULL; the       *)
(* driver handles the system holds open are shared by all instances.  The *)
(* driver's open, close, read, write and flush may fail; what a successful *)
(* read returns is FramingRead's business and is abstracted to "bytes".   *)
(***************************************************************************)
EXTENDS Integers, FiniteSets

CONSTANTS
    Insts,     \* the application's mb_inst_t instances
    Types,     \* {"RTU", "TCP", "SOCK"}: mb_backend_type_t
    Compiled,  \* the backend types whose MB_USING_*_BACKEND is defined
    Handles,   \* driver handles: rt_device_t for RTU, socket fds otherwise
    ZeroFd,    \* the socket fd 0
    SockFds,   \* the connected sockets an application may hand to SOCK
    NULL

ASSUME /\ Compiled \subseteq Types
       /\ ZeroFd \in Handles /\ SockFds \subseteq Handles
       /\ NULL \notin Handles

\* backend->hinst = (void *)(sock->fd) (part_004 line 209): fd 0 is NULL.
AsPtr(fd) == IF fd = ZeroFd THEN NULL ELSE fd

\* The SOCK ops table has no open function (part_004 lines 166-173).
HasOpen(t) == t # "SOCK"

VARIABLES
    inst,     \* inst[i]: "none" before modbus_create, "live", "gone" after destroy
    btype,    \* btype[i]: backend->type
    hinst,    \* hinst[i]: backend->hinst
    drvOpen,  \* the driver handles the system holds open
    ret       \* ret[i]: what i's last call returned: 0, -1, or 1 for "bytes"

vars == <<inst, btype, hinst, drvOpen, ret>>

TypeOK ==
    /\ inst \in [Insts -> {"none", "live", "gone"}]
    /\ btype \in [Insts -> Types]
    /\ \A i \in Insts : inst[i] # "none" => btype[i] \in Compiled
    /\ hinst \in [Insts -> Handles \cup {NULL}]
    /\ drvOpen \subseteq Handles
    /\ ret \in [Insts -> {-1, 0, 1}]

Init ==
    /\ inst = [i \in Insts |-> "none"]
    /\ btype \in [Insts -> Types]
    /\ hinst = [i \in Insts |-> NULL]
    /\ drvOpen = {}
    /\ ret = [i \in Insts |-> 0]

Live(i) == inst[i] = "live"
SetHinst(i, h) == hinst' = [hinst EXCEPT ![i] = h]
SetRet(i, r) == ret' = [ret EXCEPT ![i] = r]

-----------------------------------------------------------------------------
\* A close that releases the driver handle but leaves hinst pointing at it.
BackendCloseKeep(i, res) ==
    \/ /\ hinst[i] = NULL
       /\ res = 0
       /\ UNCHANGED <<hinst, drvOpen>>
    \/ /\ hinst[i] # NULL
       /\ res = 0
       /\ UNCHANGED hinst
       /\ drvOpen' = drvOpen \ {hinst[i]}
    \/ /\ hinst[i] # NULL
       /\ res = -1
       /\ UNCHANGED <<hinst, drvOpen>>

(* modbus_backend_close (part_004 lines 409-429), with the driver's close  *)
(* result res.  A failed close leaves hinst, and the handle, as they were. *)
BackendClose(i, res) ==
    \/ /\ hinst[i] = NULL
       /\ res = 0
       /\ UNCHANGED <<hinst, drvOpen>>
    \/ /\ hinst[i] # NULL
       /\ res = 0
       /\ SetHinst(i, NULL)
       /\ drvOpen' = drvOpen \ {hinst[i]}
    \/ /\ hinst[i] # NULL
       /\ res = -1
       /\ UNCHANGED <<hinst, drvOpen>>

-----------------------------------------------------------------------------
\* A backend create that builds a backend of any type, compiled in or not.
BackendCreateAnyType(i, t, fd) ==
    /\ btype' = [btype EXCEPT ![i] = t]
    /\ IF t = "SOCK"
         THEN /\ fd \notin drvOpen
              /\ SetHinst(i, AsPtr(fd))
              /\ drvOpen' = drvOpen \cup {fd}
         ELSE UNCHANGED <<hinst, drvOpen>>

(* modbus_backend_create (part_004 249-277) with create_rtu/tcp/sock      *)
(* (64-80, 133-149, 199-213): a backend of a compiled-in type, closed, or *)
(* for SOCK holding the socket the application has just accepted (one the *)
(* system did not hold open before).                                      *)
BackendCreate(i, t, fd) ==
    /\ t \in Compiled
    /\ btype' = [btype EXCEPT ![i] = t]
    /\ IF t = "SOCK"
         THEN /\ fd \notin drvOpen
              /\ SetHinst(i, AsPtr(fd))
              /\ drvOpen' = drvOpen \cup {fd}
         ELSE UNCHANGED <<hinst, drvOpen>>

\* modbus_create (modbus_instance.c 81-117): NULL when the backend type is
\* not compiled in or a malloc fails (the backend is then destroyed again).
Create(i, t, fd) ==
    /\ inst[i] = "none"
    /\ \/ /\ BackendCreate(i, t, fd)
          /\ inst' = [inst EXCEPT ![i] = "live"]
          /\ SetRet(i, 0)
       \/ /\ SetRet(i, -1)
          /\ UNCHANGED <<inst, btype, hinst, drvOpen>>

\* modbus_backend_destory (part_004 307-342): the backend is closed, the
\* result of the close ignored, and the backend freed with whatever handle
\* a failed close left open.
BackendDestory(i) ==
    /\ drvOpen' \in {drvOpen \ {hinst[i]}, drvOpen}
    /\ SetHinst(i, NULL)

\* modbus_destroy (modbus_instance.c 145-155).
Destroy(i) ==
    /\ Live(i)
    /\ BackendDestory(i)
    /\ inst' = [inst EXCEPT ![i] = "gone"]
    /\ SetRet(i, 0)
    /\ UNCHANGED btype

\* Lines 380-384: the driver's open hands back a handle the system does
\* not hold open, and hinst keeps it.
OpenSucceeds(i) ==
    /\ \E h \in Handles \ drvOpen :
          /\ SetHinst(i, h)
          /\ drvOpen' = drvOpen \cup {h}
    /\ SetRet(i, 0)
    /\ UNCHANGED <<inst, btype>>

\* modbus_backend_open (part_004 366-385).
BackendOpen(i) ==
    \/ /\ hinst[i] # NULL                               \* already open
       /\ SetRet(i, 0)
       /\ UNCHANGED <<inst, btype, hinst, drvOpen>>
    \/ /\ hinst[i] = NULL
       /\ ~HasOpen(btype[i])                            \* ops->open == NULL
       /\ SetRet(i, -1)
       /\ UNCHANGED <<inst, btype, hinst, drvOpen>>
    \/ /\ hinst[i] = NULL
       /\ HasOpen(btype[i])
       /\ OpenSucceeds(i)
    \/ /\ hinst[i] = NULL
       /\ HasOpen(btype[i])
       /\ SetRet(i, -1)                                 \* open returns NULL
       /\ UNCHANGED <<inst, btype, hinst, drvOpen>>

\* modbus_connect (modbus_instance.c 250-256).
Connect(i) == Live(i) /\ BackendOpen(i)

\* modbus_disconn (273-279).
Disconn(i) ==
    /\ Live(i)
    /\ \E res \in {0, -1} : BackendClose(i, res) /\ SetRet(i, res)
    /\ UNCHANGED <<inst, btype>>

\* What modbus_backend_read (part_004 491-538) and modbus_backend_write
\* (561-576) may return: -1 on a closed backend, else the driver's error,
\* a timeout (0) or some bytes (1).
BackendRw(i) == IF hinst[i] = NULL THEN {-1} ELSE {-1, 0, 1}

\* modbus_recv (modbus_instance.c 300-321) and modbus_send (341-362): an
\* error closes the backend, the close's own result ignored.
Transfer(i) ==
    /\ Live(i)
    /\ \E len \in BackendRw(i) :
          /\ IF len < 0 THEN \E res \in {0, -1} : BackendClose(i, res)
                        ELSE UNCHANGED <<hinst, drvOpen>>
          /\ SetRet(i, len)
    /\ UNCHANGED <<inst, btype>>

\* modbus_backend_flush (part_004 598-613): -1 when closed, the driver's
\* result otherwise; the backend is never closed here.
BackendFlush(i) == IF hinst[i] = NULL THEN {-1} ELSE {0, -1}

\* modbus_flush (modbus_instance.c 378-384).
Flush(i) ==
    /\ Live(i)
    /\ \E r \in BackendFlush(i) : SetRet(i, r)
    /\ UNCHANGED <<inst, btype, hinst, drvOpen>>

Next ==
    \E i \in Insts :
        \/ \E t \in Types, fd \in SockFds : Create(i, t, fd)
        \/ Destroy(i)
        \/ Connect(i)
        \/ Disconn(i)
        \/ Transfer(i)
        \/ Flush(i)

Spec == Init /\ [][Next]_vars

-----------------------------------------------------------------------------
(* Properties.                                                             *)

\* A live backend's hinst names a driver handle the system holds open and
\* no other live instance holds (mb_backend_t: hinst is NULL after close):
\* no read, write or flush after a close, an error close or a failed close
\* reaches a closed handle, or one another instance has since opened.
HandleValid ==
    \A i \in Insts : Live(i) /\ hinst[i] # NULL =>
        /\ hinst[i] \in drvOpen
        /\ \A j \in Insts \ {i} : Live(j) => hinst[j] # hinst[i]

\* Every driver handle the system holds open is some instance's hinst:
\* destroy, and the close on every error path, release what the backend
\* opened or adopted.
NoLeak == drvOpen \subseteq {hinst[i] : i \in Insts}

====
