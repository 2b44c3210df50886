------------------------------ MODULE MCCleanup ------------------------------
EXTENDS Cleanup

\* One container of each release on its own image, and one built service.
MCContainers == {"base-api", "candidate-api"}
MCImages == {"base-image", "candidate-image", "service-image"}
MCImageOf == [c \in MCContainers |->
                IF c = "base-api" THEN "base-image" ELSE "candidate-image"]
=============================================================================
