----------------------------- MODULE SeatClients -----------------------------
(***************************************************************************)
(* What the devices of a seat share: the clients, the surfaces, what the   *)
(* environment may do, and the lists of the resources that a client has    *)
(* bound (resourceMap).                                                    *)
(***************************************************************************)
EXTENDS Null, Naturals, Sequences

CONSTANTS Clients,
          Surfaces,         \* wl_surface objects
          OwnerOf,          \* the client of an object: surface, device, source
          OrderlyClients,   \* what they mean is said by the module that
          OrderlyShell      \* uses them

ASSUME SurfaceOwners == \A s \in Surfaces : OwnerOf[s] \in Clients
ASSUME NoneIsNoSurface == None \notin Surfaces
ASSUME NoneIsNoClient == None \notin Clients

\* The list of a client's resources without k, which is in it once.
Removed(list, k) ==
  LET n == CHOOSE i \in DOMAIN list : list[i] = k IN
  [i \in 1..Len(list) - 1 |-> IF i < n THEN list[i] ELSE list[i + 1]]
=============================================================================
