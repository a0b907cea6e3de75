--------------------------- MODULE ProviderSteps ---------------------------
(***************************************************************************)
(* The steps from which the operations of the four hypervisor providers    *)
(* are put together.  An operation is a sequence of steps, and each step   *)
(* says which remote call it makes and where control goes after it:        *)
(*   do      what the step does (interpreted by module ProviderCalls)      *)
(*   arg     the request sent, the states allowed or the lists fetched     *)
(*   code    the ErrorCode the error is wrapped with                       *)
(*   special error classes that get a code of their own                    *)
(*   retry   the retry policy around the call                              *)
(*   ok      how many steps to advance after success                       *)
(*   err     how many steps to advance after an error; 0 returns the error *)
(***************************************************************************)
EXTENDS Naturals, Sequences

\* The classes of error a remote call ends in, as the providers tell them apart.
ErrorClass == {"notFound", "auth", "conflict", "locked", "timeout", "reset", "refused", "other"}

\* provider.ErrorCode, as far as a provider operation returns one.
ErrorCode == {"NOT_CONNECTED", "NOT_FOUND", "UNSUPPORTED", "AUTH_FAILED", "INVALID_STATE", "INTERNAL"}

Step(do, arg, code) ==
    [do |-> do, arg |-> arg, code |-> code, special |-> <<>>, retry |-> "once", ok |-> 1, err |-> 0]

\* Every operation but a few begins with BaseProvider.EnsureConnected.
EnsureConnected == Step("ensure", "", "NOT_CONNECTED")

\* A read of the VM, of something else, and a request that starts a remote task.
Lookup(code)     == Step("lookup", "", code)
Read(code)       == Step("read", "", code)
Send(req, code)  == Step("send", req, code)
Wait(code)       == Step("wait", "", code)

\* The wanted entry is looked for in a list that has been read.
Found(code)      == Step("found", "", code)

\* Errors of class c are wrapped with a code of their own.
With(step, special) == [step EXCEPT !.special = special]

\* The call is repeated under a retry policy ("operation" or "connect").
Retried(step, policy) == [step EXCEPT !.retry = policy]

\* An error anywhere in the group is logged and control goes on behind the group.
Tolerant(group) == [i \in 1..Len(group) |-> [group[i] EXCEPT !.err = Len(group) + 1 - i]]

\* An error anywhere in the group sends control `behind' steps past its end.
OnErrorTo(group, behind) ==
    [i \in 1..Len(group) |-> [group[i] EXCEPT !.err = Len(group) + 1 + behind - i]]

=============================================================================
