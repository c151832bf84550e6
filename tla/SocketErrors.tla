---------------------------- MODULE SocketErrors ----------------------------
(***************************************************************************)
(* Error numbers of the operating system, the error codes of CSimpleSocket *)
(* and the translation between them, for the POSIX builds (_LINUX and      *)
(* _DARWIN).  An error number is its name; a successful system call leaves *)
(* errno alone, so errno is state and never the result of the last call.   *)
(***************************************************************************)

(***************************************************************************)
(* The values errno can have in the models.  "EOTHER" stands for every     *)
(* number the translation does not list and the models do not tell apart   *)
(* (EADDRNOTAVAIL, ENODEV, ESOCKTNOSUPPORT, ENETUNREACH, ...).             *)
(***************************************************************************)
Errnos ==
    {"EXIT_SUCCESS", "ENOTCONN", "ENOTSOCK", "EBADF", "EACCES",
     "EAFNOSUPPORT", "EMFILE", "ENFILE", "ENOBUFS", "ENOMEM",
     "EPROTONOSUPPORT", "EPIPE", "EOPNOTSUPP", "ECONNREFUSED", "ETIMEDOUT",
     "EINPROGRESS", "EWOULDBLOCK", "EINTR", "ECONNABORTED", "EINVAL",
     "EPROTO", "EPERM", "EFAULT", "ECONNRESET", "ENOPROTOOPT",
     "EADDRINUSE", "EALREADY", "EISCONN", "EOTHER"}

(***************************************************************************)
(* CSimpleSocket::CSocketError without the generic SocketError (-1), which *)
(* is a return value and is never stored in m_socketErrno.                 *)
(***************************************************************************)
CSocketError ==
    {"SocketSuccess", "SocketInvalidSocket", "SocketInvalidAddress",
     "SocketInvalidPort", "SocketConnectionRefused", "SocketTimedout",
     "SocketEwouldblock", "SocketNotconnected", "SocketEinprogress",
     "SocketInterrupted", "SocketConnectionAborted", "SocketProtocolError",
     "SocketFirewallError", "SocketInvalidSocketBuffer",
     "SocketConnectionReset", "SocketAddressInUse", "SocketInvalidPointer",
     "SocketEunknown"}

(***************************************************************************)
(* A plausible slip in the switch below: its default case keeps the        *)
(* system's number instead of storing SocketEunknown.                      *)
(***************************************************************************)
TranslateWithoutDefault(e) ==
    CASE e = "EXIT_SUCCESS" -> "SocketSuccess"
      [] e = "EINTR" -> "SocketInterrupted"
      [] e = "EWOULDBLOCK" -> "SocketEwouldblock"
      [] OTHER -> e

(***************************************************************************)
(* CSimpleSocket::TranslateSocketError: the code stored in m_socketErrno   *)
(* when the thread's errno is e.                                           *)
(***************************************************************************)
TranslateSocketError(e) ==
    CASE e = "EXIT_SUCCESS" -> "SocketSuccess"
      [] e = "ENOTCONN" -> "SocketNotconnected"
      [] e \in {"ENOTSOCK", "EBADF", "EACCES", "EAFNOSUPPORT", "EMFILE",
                "ENFILE", "ENOBUFS", "ENOMEM", "EPROTONOSUPPORT", "EPIPE",
                "EOPNOTSUPP"} -> "SocketInvalidSocket"
      [] e = "ECONNREFUSED" -> "SocketConnectionRefused"
      [] e = "ETIMEDOUT" -> "SocketTimedout"
      [] e = "EINPROGRESS" -> "SocketEinprogress"
      [] e = "EWOULDBLOCK" -> "SocketEwouldblock"
      [] e = "EINTR" -> "SocketInterrupted"
      [] e = "ECONNABORTED" -> "SocketConnectionAborted"
      [] e \in {"EINVAL", "EPROTO"} -> "SocketProtocolError"
      [] e = "EPERM" -> "SocketFirewallError"
      [] e = "EFAULT" -> "SocketInvalidSocketBuffer"
      [] e \in {"ECONNRESET", "ENOPROTOOPT"} -> "SocketConnectionReset"
      [] e = "EADDRINUSE" -> "SocketAddressInUse"
      [] OTHER -> "SocketEunknown"

=============================================================================
