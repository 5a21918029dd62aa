----------------------------- MODULE TcsNative ------------------------------
(***************************************************************************)
(* What the calls of the two systems say, and the TcsResult tinycsocket.h  *)
(* makes of it.  An error is named as POSIX names it; Windows' WSAE names  *)
(* are the same with another prefix.                                       *)
(***************************************************************************)

(* errno2retcode: the errors it knows.                                     *)
ErrnoCodes ==
  [ EAGAIN |-> "WOULD_BLOCK", EWOULDBLOCK |-> "WOULD_BLOCK", EINPROGRESS |-> "IN_PROGRESS",
    EPERM |-> "PERMISSION_DENIED", EACCES |-> "PERMISSION_DENIED",
    ECONNREFUSED |-> "CONNECTION_REFUSED", ECONNRESET |-> "CONNECTION_RESET",
    ENOTCONN |-> "NOT_CONNECTED", ETIMEDOUT |-> "TIMED_OUT",
    ENETUNREACH |-> "NETWORK_UNREACHABLE", EINVAL |-> "INVALID_ARGUMENT",
    EADDRINUSE |-> "ADDRESS_IN_USE", ENOMEM |-> "MEMORY" ]

Errno(error) == IF error \in DOMAIN ErrnoCodes THEN ErrnoCodes[error] ELSE "UNKNOWN"

(* wsaerror2retcode: a connection in progress is none of those it knows.   *)
WsaCodes ==
  [ EWOULDBLOCK |-> "WOULD_BLOCK", ETIMEDOUT |-> "TIMED_OUT",
    ECONNREFUSED |-> "CONNECTION_REFUSED", ECONNRESET |-> "CONNECTION_RESET",
    ENOTCONN |-> "NOT_CONNECTED", ESHUTDOWN |-> "SOCKET_CLOSED",
    ENETUNREACH |-> "NETWORK_UNREACHABLE", EACCES |-> "PERMISSION_DENIED",
    EINVAL |-> "INVALID_ARGUMENT", EADDRINUSE |-> "ADDRESS_IN_USE",
    ENOBUFS |-> "MEMORY", ENOMEM |-> "MEMORY" ]

WsaError(error) == IF error \in DOMAIN WsaCodes THEN WsaCodes[error] ELSE "UNKNOWN"

(* tcs_connect.  A socket that does not block has its connection pending.  *)
PosixConnect(says) == IF says = "ok" THEN "SUCCESS" ELSE Errno(says)

(* Mutant: the error of a pending connection is taken as it is.            *)
Win32ConnectRaw(says) == IF says = "ok" THEN "SUCCESS" ELSE WsaError(says)

Win32Connect(says) ==
  IF says = "ok" THEN "SUCCESS"
  ELSE IF says = "EWOULDBLOCK" THEN "IN_PROGRESS"
  ELSE WsaError(says)

Pending(backend) == IF backend = "posix" THEN "EINPROGRESS" ELSE "EWOULDBLOCK"

(* tcs_receive of a stream without flags and with room for something: some *)
(* bytes, the end of the stream, or an error.                              *)
PosixReceive(says) ==
  IF says = "bytes" THEN "SUCCESS" ELSE IF says = "end" THEN "SHUTDOWN" ELSE Errno(says)

Win32Receive(says) ==
  IF says = "bytes" THEN "SUCCESS" ELSE IF says = "end" THEN "SHUTDOWN" ELSE WsaError(says)

(* tcs_address_resolve.  A number is not looked up; a name may be unknown, *)
(* or known without an address that can be used.                           *)
PosixResolve(says) ==
  IF says \in {"number", "addresses"} THEN "SUCCESS"
  ELSE IF says \in {"EAI_FAIL", "EAI_NONAME", "nothing"} THEN "ADDRESS_LOOKUP_FAILED"
  ELSE IF says = "EAI_AGAIN" THEN "TEMPORARY_FAILURE"
  ELSE IF says \in {"EAI_BADFLAGS", "EAI_FAMILY", "EAI_SERVICE"} THEN "INVALID_ARGUMENT"
  ELSE IF says = "EAI_MEMORY" THEN "MEMORY"
  ELSE Errno(says)

Win32Resolve(says) ==
  IF says \in {"number", "addresses"} THEN "SUCCESS" ELSE "ADDRESS_LOOKUP_FAILED"
=============================================================================
