\* A retried CreateInvocation whose first response was lost.
CONSTANTS
    c1 = c1
    c2 = c2
    Clients <- MCClients
    Requests <- MCRequests
    MaxAttempts = 2
    None = None
SPECIFICATION Spec
INVARIANT
    UpdateTokenValid
