------------------------------ MODULE Wrappers ------------------------------
(***************************************************************************)
(* The calls ld_preload.c interposes, as the parameters in which their      *)
(* bodies differ.  The control all wrappers of one kind share is the        *)
(* actions of LdPreload; a record here is one C function:                   *)
(*                                                                          *)
(*   kind      "forward": find the entry, hand the call to its worker;      *)
(*             "create":  perform the call, add an entry for its result;    *)
(*             "close":   stop the worker, delete the entry, then perform   *)
(*                        the call                                          *)
(*   lock      how the wrapper takes table_rwlock                           *)
(*   class     the NetorFile it looks for or gives to a new entry           *)
(*   field     the field of retval_data it returns                          *)
(*   errno     how it treats thr_errno: "assign" it always, "if_set" only   *)
(*             when it is not 0, "drop" it                                  *)
(*   fallback  errno before the original call when there is no entry:       *)
(*             "saved" func_errno, or "zero"                                *)
(*   least     "create": the smallest descriptor that is given an entry     *)
(***************************************************************************)
EXTENDS Integers

net  == 0   \* NetorFile of network descriptors
file == 1   \* NetorFile of file descriptors

Forward(type, class, field, errno, fallback) ==
  [kind |-> "forward", type |-> type, lock |-> "rd", class |-> class,
   field |-> field, errno |-> errno, fallback |-> fallback]

MutReadStored == Forward("READ", file, "value", "if_set", "saved")
MutReadErrno  == Forward("READ", file, "size", "drop", "saved")

lseek       == Forward("LSEEK", file, "value", "if_set", "saved")
read        == Forward("READ", file, "size", "if_set", "saved")
write       == Forward("WRITE", file, "size", "drop", "saved")
bind        == Forward("BIND", net, "value", "assign", "saved")
listen      == Forward("LISTEN", net, "value", "assign", "saved")
accept      == Forward("ACCEPT", net, "value", "assign", "zero")
connect     == Forward("CONNECT", net, "value", "assign", "saved")
send        == Forward("SEND", net, "size", "assign", "saved")
recv        == Forward("RECV", net, "size", "assign", "saved")
setsockopt  == Forward("SETSOCKOPT", net, "value", "assign", "saved")
getsockopt  == Forward("GETSOCKOPT", net, "value", "assign", "saved")
epoll_ctl   == Forward("EPOLL_CTL", net, "value", "if_set", "saved")
poll        == Forward("POLL", net, "value", "if_set", "saved")
sendto      == Forward("SENDTO", net, "size", "assign", "saved")
sendmsg     == Forward("SENDMSG", net, "size", "assign", "zero")
recvfrom    == Forward("RECVFROM", net, "size", "if_set", "saved")
recvmsg     == Forward("RECVMSG", net, "size", "assign", "saved")
getsockname == Forward("GETSOCKNAME", net, "value", "assign", "saved")
getpeername == Forward("GETPEERNAME", net, "value", "if_set", "saved")

Create(type, lock, class, least) ==
  [kind |-> "create", type |-> type, lock |-> lock, class |-> class,
   least |-> least]

open         == Create("OPEN", "wr", file, 3)
openat       == Create("OPENAT", "wr", file, 1)
socket       == Create("SOCKET", "wr", net, 0)
epoll_create == Create("EPOLL_CREATE", "rd", net, 0)

close    == [kind |-> "close", type |-> "CLOSE", lock |-> "wr"]
shutdown == [kind |-> "close", type |-> "SHUTDOWN", lock |-> "wr"]

(* All of them. *)
Interposed ==
  {lseek, read, write, bind, listen, accept, connect, send, recv, setsockopt,
   getsockopt, epoll_ctl, poll, sendto, sendmsg, recvfrom, recvmsg,
   getsockname, getpeername, open, openat, socket, epoll_create, close, shutdown}

(* The field of retval_data into which syscall_thread's switch stores the   *)
(* outcome of a request.                                                    *)
StoredField(type) ==
  IF type \in {"SEND", "RECV", "READ", "WRITE", "SENDTO", "RECVFROM",
               "SENDMSG", "RECVMSG"}
  THEN "size" ELSE "value"
=============================================================================
