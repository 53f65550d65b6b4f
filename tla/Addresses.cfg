\* A host with two addresses, the first of which refuses the connection.
SPECIFICATION AddressesSpec
CONSTANTS
  MaxAddresses = 2
INVARIANTS
  AllAreTried
\* The call returns or throws.
CHECK_DEADLOCK FALSE
