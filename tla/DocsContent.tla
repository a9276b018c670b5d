---- MODULE DocsContent ----
(***************************************************************************)
(* The catalogue of the documentation website (website/content): one       *)
(* definition per page, in the order of the files.  A page is its slug,    *)
(* its category and its place in the category: what decides where the site *)
(* shows and links it.  Its titles, its sections and its prose are left    *)
(* out.                                                                    *)
(***************************************************************************)
EXTENDS Sequences

Page(slug, category, order) ==
  [slug |-> slug, category |-> category, order |-> order]

(* content/getting-started.ts *)

IntroductionPage == Page("introduction", "Getting started", 1)

InstallationPage == Page("installation", "Getting started", 2)

QuickStartPage == Page("quick-start", "Getting started", 3)

ConfigurationPage == Page("configuration", "Getting started", 4)

(* content/core-concepts.ts *)

MessageBusPage == Page("message-bus", "Core concepts", 1)

DurableJobsPage == Page("durable-jobs", "Core concepts", 2)

CapabilitiesPage == Page("capabilities", "Core concepts", 3)

HeadersAndContextPage == Page("headers-and-context", "Core concepts", 4)

TypedCodecsPage == Page("typed-codecs", "Core concepts", 5)

RetriesAndFailuresPage == Page("retries-and-failures", "Core concepts", 6)

DeadLettersPage == Page("dead-letters", "Core concepts", 7)

(* content/reliability.ts *)

DeliverySemanticsPage == Page("delivery-semantics", "Reliability", 1)

IdempotencyPage == Page("idempotency", "Reliability", 2)

TransactionalOutboxPage == Page("transactional-outbox", "Reliability", 3)

InboxProcessingPage == Page("inbox-processing", "Reliability", 4)

SchemaEvolutionPage == Page("schema-evolution", "Reliability", 5)

(* content/transports.ts *)

NatsCorePage == Page("nats-core", "Transports", 1)

JetstreamPage == Page("jetstream", "Transports", 2)

RabbitmqPage == Page("rabbitmq", "Transports", 3)

KafkaPage == Page("kafka", "Transports", 4)

(* content/integrations.ts *)

PostgresqlPage == Page("postgresql", "Integrations", 1)

ServerpodPage == Page("serverpod", "Integrations", 2)

ObservabilityPage == Page("observability", "Integrations", 3)

(* content/operations.ts *)

ProductionDeploymentPage == Page("production-deployment", "Operations", 1)

HealthChecksPage == Page("health-checks", "Operations", 2)

GracefulShutdownPage == Page("graceful-shutdown", "Operations", 3)

TestingPage == Page("testing", "Operations", 4)

GithubPagesPage == Page("github-pages", "Operations", 5)

IncidentResponsePage == Page("incident-response", "Operations", 6)

(* content/reference.ts *)

ApiReferencePage == Page("api-reference", "Reference", 1)

ConfigurationReferencePage == Page("configuration-reference", "Reference", 2)

CapabilityMatrixPage == Page("capability-matrix", "Reference", 3)

FaqPage == Page("faq", "Reference", 4)

RoadmapPage == Page("roadmap", "Reference", 5)

(* The arrays the content files export. *)

GettingStartedDocs ==
  <<IntroductionPage, InstallationPage, QuickStartPage, ConfigurationPage>>

CoreConceptDocs ==
  <<MessageBusPage, DurableJobsPage, CapabilitiesPage,
    HeadersAndContextPage, TypedCodecsPage, RetriesAndFailuresPage,
    DeadLettersPage>>

ReliabilityDocs ==
  <<DeliverySemanticsPage, IdempotencyPage, TransactionalOutboxPage,
    InboxProcessingPage, SchemaEvolutionPage>>

TransportDocs ==
  <<NatsCorePage, JetstreamPage, RabbitmqPage, KafkaPage>>

IntegrationDocs ==
  <<PostgresqlPage, ServerpodPage, ObservabilityPage>>

OperationsDocs ==
  <<ProductionDeploymentPage, HealthChecksPage, GracefulShutdownPage,
    TestingPage, GithubPagesPage, IncidentResponsePage>>

ReferenceDocs ==
  <<ApiReferencePage, ConfigurationReferencePage, CapabilityMatrixPage,
    FaqPage, RoadmapPage>>

====
